---------------------------- MODULE Spec2Model ----------------------------
(***************************************************************************)
(* Model of the aggregation and concentration-analysis code of the        *)
(* SATE_Performance report scripts (season_1.py, season_2.py, season_3.py, *)
(* archive/season_2.py).                                                   *)
(*                                                                         *)
(* Numbers.  The scripts compute in IEEE floating point.  The model        *)
(* computes in exact arithmetic: a number is a pair <<n, d>> with d >= 0   *)
(* in lowest terms; d = 0 encodes the non-finite floats the scripts can    *)
(* produce without raising: <<0,0>> is NaN, <<1,0>> is +inf, <<-1,0>> is   *)
(* -inf.  Rounding error is therefore outside the model.                   *)
(***************************************************************************)
EXTENDS Integers, Sequences, FiniteSets, TLC

VARIABLES
    script,         \* which script / function this run executes
    pc,             \* position in the script
    exc,            \* exception that ended the run, or "none"
    values,         \* argument of calculate_gini (sequence of numbers)
    gini,           \* value returned by calculate_gini
    df_contracts,   \* rows of Credits_Contracts.xlsx
    df_payments,    \* rows of Credits_Payments.xlsx
    \* season_1.py
    total_credits, credits_per_subject, credits_sorted, cumulative_percentage,
    index_20, credit_at_20, index_80, subject_at_80, top_20_pct,
    \* season_3.py
    uni_summary, contract_amounts, cumulative_percent, threshold_80,
    num_unis_80, province_contracts, province_payments,
    \* season_2.py
    subjects_summary, total_credit, total_contract, total_payment, dept_summary,
    heights, bottoms,   \* the bars of the waterfall chart 2-5
    \* archive/season_2.py
    df, sorted_entities, cumulative_pct,
    sheet,          \* rows of the sheet of data/Research-Credibility.xlsx
    totals,         \* totals of the years, of charts 2-1 and 2-2
    growth_rates,   \* growth rates of the years, of charts 2-1 and 2-2
    \* one call of extract_province (season_3.py)
    university_cell,    \* its argument
    province,           \* its return value
    \* one call of format_number_with_separator
    variant,            \* the file whose definition is called
    number,             \* its first argument
    use_persian,        \* its second argument
    formatted,          \* its return value
    \* main() of archive/season_2.py
    file_state,         \* data/Research-Credibility.xlsx: "ok", "missing", "unreadable"
    sheet_columns,      \* the expected columns the sheet has
    fault_at,           \* number of the chart whose drawing fails, 0 for none
    df_columns,         \* columns of the table returned by load_and_process_data
    data_source,        \* where that table comes from: "excel" or "sample"
    log,                \* what the run did and printed, in order
    \* one call of format_text_multiline (season_3.py)
    text,               \* its first argument
    max_chars_per_line, \* its second argument
    max_lines,          \* its third argument
    multiline           \* its return value

s2vars == <<subjects_summary, total_credit, total_contract, total_payment,
            dept_summary, heights, bottoms>>

a2vars == <<df, sorted_entities, cumulative_pct, sheet, totals, growth_rates>>

s3vars == <<uni_summary, contract_amounts, cumulative_percent, threshold_80,
            num_unis_80, province_contracts, province_payments>>

s1vars == <<total_credits, credits_per_subject, credits_sorted,
            cumulative_percentage, index_20, credit_at_20, index_80,
            subject_at_80, top_20_pct>>

inputs == <<values, df_contracts, df_payments>>

evars == <<university_cell, province>>

nvars == <<variant, number, use_persian, formatted>>

mvars == <<file_state, sheet_columns, fault_at, df_columns, data_source, log>>

tvars == <<text, max_chars_per_line, max_lines, multiline>>

fvars == <<evars, nvars, mvars, tvars>>

vars == <<script, pc, exc, gini, inputs, s1vars, s2vars, s3vars, a2vars,
          fvars>>

(***************************************************************************)
(* Bounds of the model                                                     *)
(***************************************************************************)
MaxN == 5           \* longest argument of calculate_gini
MaxRows1 == 3       \* most rows of the contracts table read by season_1
MaxRows3 == 3       \* most rows of the contracts table read by season_3
MaxPayments3 == 1   \* most rows of the payments table read by season_3
MaxRows2 == 2       \* most rows of the contracts table read by season_2
MaxPayments2 == 2   \* most rows of the payments table read by season_2
MaxRowsT == 2       \* most rows of the sheet read for charts 2-1 and 2-2
MaxRowsA == 3       \* most rows of the credits table read by archive/season_2
MaxWords == 3       \* most words of a name passed to extract_province
MaxTextLen == 7     \* longest text passed to format_text_multiline
MaxChars == 5       \* largest max_chars_per_line
MaxLines == 2       \* largest max_lines

(***************************************************************************)
(* Exact arithmetic with the non-finite floats                             *)
(***************************************************************************)
Abs(x) == IF x < 0 THEN -x ELSE x

Sign(x) == IF x < 0 THEN -1 ELSE IF x = 0 THEN 0 ELSE 1

RECURSIVE GCD(_, _)
GCD(a, b) == IF b = 0 THEN a ELSE GCD(b, a % b)

\* <<n, d>> in lowest terms with d >= 0; d = 0 gives NaN / +inf / -inf
Norm(n, d) ==
    IF d = 0 THEN <<Sign(n), 0>>
    ELSE LET g == GCD(Abs(n), Abs(d))
             s == Sign(d)
         IN  <<(s * n) \div g, (s * d) \div g>>

NaN == <<0, 0>>
Num(k) == <<k, 1>>
IsNaN(x) == x = NaN
IsFinite(x) == x[2] # 0

\* float division: x / 0 is +-inf, 0 / 0 is NaN, nothing is raised
FDiv(x, y) ==
    IF IsNaN(x) \/ IsNaN(y) THEN NaN
    ELSE IF ~IsFinite(x) /\ ~IsFinite(y) THEN NaN
    ELSE IF ~IsFinite(y) THEN Num(0)
    ELSE IF ~IsFinite(x) THEN <<x[1] * (IF y[1] < 0 THEN -1 ELSE 1), 0>>
    ELSE Norm(x[1] * y[2], x[2] * y[1])

FMul(x, y) ==
    IF IsNaN(x) \/ IsNaN(y) THEN NaN
    ELSE IF ~IsFinite(x) \/ ~IsFinite(y) THEN <<Sign(x[1]) * Sign(y[1]), 0>>
    ELSE Norm(x[1] * y[1], x[2] * y[2])

FAdd(x, y) ==
    IF IsNaN(x) \/ IsNaN(y) THEN NaN
    ELSE IF ~IsFinite(x) /\ ~IsFinite(y) THEN (IF x = y THEN x ELSE NaN)
    ELSE IF ~IsFinite(x) THEN x
    ELSE IF ~IsFinite(y) THEN y
    ELSE Norm(x[1] * y[2] + y[1] * x[2], x[2] * y[2])

FNeg(x) == <<-x[1], x[2]>>

FSub(x, y) == FAdd(x, FNeg(y))

\* comparisons: every comparison with NaN is false
FLe(x, y) ==
    IF IsNaN(x) \/ IsNaN(y) THEN FALSE
    ELSE IF ~IsFinite(x) THEN x[1] < 0 \/ x = y
    ELSE IF ~IsFinite(y) THEN y[1] > 0
    ELSE x[1] * y[2] <= y[1] * x[2]

FLt(x, y) == FLe(x, y) /\ x # y

FGt(x, y) == FLt(y, x)

(***************************************************************************)
(* numpy helpers used by calculate_gini                                    *)
(***************************************************************************)
\* insert v into the ascending sequence s
RECURSIVE InsertAsc(_, _)
InsertAsc(v, s) ==
    IF s = <<>> THEN <<v>>
    ELSE IF FLe(v, Head(s)) THEN <<v>> \o s
    ELSE <<Head(s)>> \o InsertAsc(v, Tail(s))

\* np.sort: ascending
RECURSIVE np_sort(_)
np_sort(s) == IF s = <<>> THEN <<>> ELSE InsertAsc(Head(s), np_sort(Tail(s)))

\* np.cumsum: running sums
RECURSIVE np_cumsum(_)
np_cumsum(s) ==
    IF s = <<>> THEN <<>>
    ELSE LET c == np_cumsum(SubSeq(s, 1, Len(s) - 1))
         IN  Append(c, IF c = <<>> THEN s[Len(s)] ELSE FAdd(c[Len(c)], s[Len(s)]))

\* np.sum
RECURSIVE np_sum(_)
np_sum(s) == IF s = <<>> THEN Num(0) ELSE FAdd(Head(s), np_sum(Tail(s)))

(***************************************************************************)
(* season_1.py: calculate_gini                                             *)
(***************************************************************************)
\* the weights (n - np.arange(1, n + 1) + 1) multiplied into sorted_values
GiniWeighted(sorted_values) ==
    LET n == Len(sorted_values)
    IN  [i \in 1..n |-> FMul(Num(n - i + 1), sorted_values[i])]

\* returns [exc, val]: cumsum[-1] of an empty array raises IndexError
calculate_gini(vs) ==
    LET sorted_values == np_sort(vs)
        n == Len(vs)
        cumsum == np_cumsum(sorted_values)
    IN  IF n = 0 THEN [exc |-> "IndexError", val |-> NaN]
        ELSE [exc |-> "none",
              val |-> FSub(FDiv(FMul(Num(2), np_sum(GiniWeighted(sorted_values))),
                                FMul(Num(n), cumsum[n])),
                           Norm(n + 1, n))]

(***************************************************************************)
(* pandas helpers.  A table is a sequence of records, a Series a sequence  *)
(* of numbers (positions are Python's, 0-based, plus one) or of            *)
(* [key, val] / [label, val] records when its index matters.               *)
(***************************************************************************)
NoSubject == "NaN"          \* an empty cell of the 'subject name' column

Subjects == <<"A", "B", "C">>       \* subject names, in sort order

Range(q) == {q[i] : i \in 1..Len(q)}

Column(rows, col) == [i \in 1..Len(rows) |-> rows[i][col]]

\* Series.sum(): NaN entries are skipped
pd_sum(s) == np_sum(SelectSeq(s, LAMBDA x : ~IsNaN(x)))

\* Series.cumsum(): a NaN entry stays NaN and is skipped by the running sum
RECURSIVE pd_cumsum(_)
pd_cumsum(s) ==
    IF s = <<>> THEN <<>>
    ELSE LET init == SubSeq(s, 1, Len(s) - 1)
             last == s[Len(s)]
         IN  Append(pd_cumsum(init),
                    IF IsNaN(last) THEN NaN ELSE FAdd(pd_sum(init), last))

\* groupby(col): the distinct non-null keys in sort order; rows whose key
\* is null belong to no group (dropna=True is the default)
GroupKeys(rows, col, order) ==
    SelectSeq(order, LAMBDA k : \E i \in 1..Len(rows) : rows[i][col] = k)

GroupRows(rows, col, k) == SelectSeq(rows, LAMBDA r : r[col] = k)

\* GroupBy.first(): the first non-null entry of the group, NaN if none
pd_first(s) ==
    LET nn == SelectSeq(s, LAMBDA x : ~IsNaN(x))
    IN  IF nn = <<>> THEN NaN ELSE nn[1]

\* insert v into the descending sequence s, after the entries equal to it
RECURSIVE InsertDesc(_, _)
InsertDesc(v, s) ==
    IF s = <<>> THEN <<v>>
    ELSE IF FGt(v, Head(s)) THEN <<v>> \o s
    ELSE <<Head(s)>> \o InsertDesc(v, Tail(s))

\* Series.sort_values(ascending=False).reset_index(drop=True)
RECURSIVE sort_values_desc(_)
sort_values_desc(s) ==
    IF s = <<>> THEN <<>>
    ELSE InsertDesc(s[Len(s)], sort_values_desc(SubSeq(s, 1, Len(s) - 1)))

\* the curve without the running sum: (s / s.sum()) * 100
CumulativePercent_NoCumsum(s) ==
    LET t == pd_sum(s)
    IN  [i \in 1..Len(s) |-> FMul(FDiv(s[i], t), Num(100))]

\* (s.cumsum() / s.sum()) * 100
CumulativePercent(s) ==
    LET c == pd_cumsum(s)
        t == pd_sum(s)
    IN  [i \in 1..Len(s) |-> FMul(FDiv(c[i], t), Num(100))]

\* Series.head(k)
pd_head(s, k) == SubSeq(s, 1, IF k < Len(s) THEN k ELSE Len(s))

(***************************************************************************)
(* season_1.py                                                             *)
(***************************************************************************)
\* the credit column of every row, without the grouping by subject
CreditsPerSubjectRaw_EveryRow(rows) ==
    Column(SelectSeq(rows, LAMBDA r : r.subject # NoSubject), "credit")

\* df_contracts.groupby('subject')['credit 1404'].first()
CreditsPerSubjectRaw(rows) ==
    LET keys == GroupKeys(rows, "subject", Subjects)
    IN  [i \in 1..Len(keys) |->
            pd_first(Column(GroupRows(rows, "subject", keys[i]), "credit"))]

\* lines 80-82: pd.read_excel at the top level of the script; df_contracts
\* holds what a readable sheet contains, an exception of read_excel is not
\* caught and ends the script
S1_Load ==
    /\ script = "season_1" /\ pc = "load"
    /\ IF file_state = "ok"
       THEN pc' = "totals" /\ exc' = exc
       ELSE pc' = "aborted" /\ exc' = "Exception"
    /\ UNCHANGED <<script, gini, fvars, inputs, s1vars, s2vars, s3vars, a2vars>>

\* lines 91-92: total_credits
S1_Totals ==
    /\ script = "season_1" /\ pc = "totals"
    /\ total_credits' = pd_sum(CreditsPerSubjectRaw(df_contracts))
    /\ pc' = "chart_1_2"
    /\ UNCHANGED <<script, exc, gini, fvars, inputs, credits_per_subject,
                   credits_sorted, cumulative_percentage, index_20,
                   credit_at_20, index_80, subject_at_80, top_20_pct,
                   s2vars, s3vars, a2vars>>

\* lines 202-204: credits_per_subject, only the subjects above 100, in billions
S1_CreditsPerSubject ==
    /\ script = "season_1" /\ pc = "chart_1_2"
    /\ LET raw == CreditsPerSubjectRaw(df_contracts)
           kept == SelectSeq(raw, LAMBDA x : FGt(x, Num(100)))
       IN  credits_per_subject' = [i \in 1..Len(kept) |-> FDiv(kept[i], Num(1000))]
    /\ pc' = "chart_1_3"
    /\ UNCHANGED <<script, exc, gini, fvars, inputs, total_credits,
                   credits_sorted, cumulative_percentage, index_20,
                   credit_at_20, index_80, subject_at_80, top_20_pct,
                   s2vars, s3vars, a2vars>>

\* lines 289-293: credits_sorted and cumulative_percentage
S1_Curve ==
    /\ script = "season_1" /\ pc = "chart_1_3"
    /\ credits_sorted' = sort_values_desc(credits_per_subject)
    /\ cumulative_percentage' = CumulativePercent(credits_sorted')
    /\ pc' = "index_20"
    /\ UNCHANGED <<script, exc, gini, fvars, inputs, total_credits, credits_per_subject,
                   index_20, credit_at_20, index_80, subject_at_80, top_20_pct,
                   s2vars, s3vars, a2vars>>

\* int(len(credits_sorted) * 0.2)
Index20(n) == n \div 5

\* lines 334-335: index_20 and credit_at_20; .iloc past the end raises
S1_Index20 ==
    /\ script = "season_1" /\ pc = "index_20"
    /\ index_20' = Index20(Len(credits_sorted))
    /\ IF index_20' < Len(cumulative_percentage)
       THEN /\ credit_at_20' = cumulative_percentage[index_20' + 1]
            /\ pc' = "index_80"
            /\ exc' = exc
       ELSE /\ credit_at_20' = credit_at_20
            /\ pc' = "raised"
            /\ exc' = "IndexError"
    /\ UNCHANGED <<script, gini, fvars, inputs, total_credits, credits_per_subject,
                   credits_sorted, cumulative_percentage, index_80,
                   subject_at_80, top_20_pct,
                   s2vars, s3vars, a2vars>>

\* cumulative_percentage[cumulative_percentage <= 80].index[-1] if any(...) else 0
\* the 0-based position of the last entry that is at most 80
LastAtMost80(cp) ==
    LET hits == {i \in 1..Len(cp) : FLe(cp[i], Num(80))}
    IN  IF hits = {} THEN 0
        ELSE (CHOOSE i \in hits : \A j \in hits : j <= i) - 1

\* lines 338-339: index_80 and subject_at_80
S1_Index80 ==
    /\ script = "season_1" /\ pc = "index_80"
    /\ index_80' = LastAtMost80(cumulative_percentage)
    /\ subject_at_80' = FMul(FDiv(Num(index_80' + 1), Num(Len(credits_sorted))), Num(100))
    /\ pc' = "key_stats"
    /\ UNCHANGED <<script, exc, gini, fvars, inputs, total_credits, credits_per_subject,
                   credits_sorted, cumulative_percentage, index_20,
                   credit_at_20, top_20_pct,
                   s2vars, s3vars, a2vars>>

\* lines 364-373: top_20_pct and the Gini coefficient of the text box
S1_KeyStats ==
    /\ script = "season_1" /\ pc = "key_stats"
    /\ top_20_pct' = FMul(FDiv(pd_sum(pd_head(credits_sorted, Index20(Len(credits_sorted)))),
                               pd_sum(credits_sorted)), Num(100))
    /\ LET r == calculate_gini(credits_sorted)
       IN  /\ gini' = r.val
           /\ exc' = r.exc
           /\ pc' = IF r.exc = "none" THEN "done" ELSE "raised"
    /\ UNCHANGED <<script, fvars, inputs, total_credits, credits_per_subject,
                   credits_sorted, cumulative_percentage, index_20,
                   credit_at_20, index_80, subject_at_80,
                   s2vars, s3vars, a2vars>>

(***************************************************************************)
(* season_3.py: extract_province.  A name is the sequence of its           *)
(* characters, each Persian letter written by a Latin token ("sh" is the   *)
(* letter shin, "A" is alef with madda, " " is the space).                 *)
(***************************************************************************)
NoUniversity == <<"NaN">>   \* an empty cell of the 'university' column

\* the provinces dictionary, in its declared order
provinces ==
    <<[province |-> <<"t", "h", "r", "a", "n">>,
       keywords |-> <<<<"t", "h", "r", "a", "n">>, <<"sh", "h", "y", "d", " ", "b", "h", "sh", "t", "y">>, <<"E", "l", "m", " ", "v", " ", "S", "n", "E", "t">>, <<"a", "m", "y", "r", "k", "b", "y", "r">>, <<"S", "n", "E", "t", "y", " ", "sh", "r", "y", "f">>, <<"sh", "r", "y", "f">>, <<"a", "l", "z", "h", "r", "a">>, <<"kh", "v", "a", "j", "h", " ", "n", "S", "y", "r">>>>],
      [province |-> <<"a", "S", "f", "h", "a", "n">>,
       keywords |-> <<<<"a", "S", "f", "h", "a", "n">>, <<"S", "n", "E", "t", "y", " ", "a", "S", "f", "h", "a", "n">>>>],
      [province |-> <<"sh", "y", "r", "a", "z">>,
       keywords |-> <<<<"sh", "y", "r", "a", "z">>>>],
      [province |-> <<"f", "a", "r", "s">>,
       keywords |-> <<<<"sh", "y", "r", "a", "z">>>>],
      [province |-> <<"t", "b", "r", "y", "z">>,
       keywords |-> <<<<"t", "b", "r", "y", "z">>, <<"S", "n", "E", "t", "y", " ", "s", "h", "n", "d">>>>],
      [province |-> <<"A", "dh", "r", "b", "a", "y", "j", "a", "n", " ", "sh", "r", "q", "y">>,
       keywords |-> <<<<"t", "b", "r", "y", "z">>, <<"s", "h", "n", "d">>>>],
      [province |-> <<"m", "sh", "h", "d">>,
       keywords |-> <<<<"m", "sh", "h", "d">>, <<"f", "r", "d", "v", "s", "y">>>>],
      [province |-> <<"kh", "r", "a", "s", "a", "n", " ", "r", "D", "v", "y">>,
       keywords |-> <<<<"m", "sh", "h", "d">>, <<"f", "r", "d", "v", "s", "y">>>>],
      [province |-> <<"a", "h", "v", "a", "z">>,
       keywords |-> <<<<"a", "h", "v", "a", "z">>, <<"ch", "m", "r", "a", "n">>>>],
      [province |-> <<"kh", "v", "z", "s", "t", "a", "n">>,
       keywords |-> <<<<"a", "h", "v", "a", "z">>, <<"ch", "m", "r", "a", "n">>, <<"j", "n", "d", "y", " ", "sh", "a", "p", "v", "r">>>>],
      [province |-> <<"k", "r", "m", "a", "n">>,
       keywords |-> <<<<"k", "r", "m", "a", "n">>, <<"b", "a", "h", "n", "r">>, <<"sh", "h", "y", "d", " ", "b", "a", "h", "n", "r">>>>],
      [province |-> <<"g", "y", "l", "a", "n">>,
       keywords |-> <<<<"g", "y", "l", "a", "n">>, <<"r", "sh", "t">>>>],
      [province |-> <<"m", "a", "z", "n", "d", "r", "a", "n">>,
       keywords |-> <<<<"m", "a", "z", "n", "d", "r", "a", "n">>, <<"b", "a", "b", "l", "s", "r">>, <<"s", "a", "r", "y">>, <<"n", "v", "sh", "y", "r", "v", "a", "n", "y">>, <<"b", "a", "b", "l">>>>],
      [province |-> <<"k", "r", "m", "a", "n", "sh", "a", "h">>,
       keywords |-> <<<<"k", "r", "m", "a", "n", "sh", "a", "h">>, <<"r", "a", "z", "y">>>>],
      [province |-> <<"h", "m", "d", "a", "n">>,
       keywords |-> <<<<"h", "m", "d", "a", "n">>, <<"b", "v", "E", "l", "y", " ", "s", "y", "n", "a">>>>],
      [province |-> <<"q", "z", "v", "y", "n">>,
       keywords |-> <<<<"q", "z", "v", "y", "n">>, <<"a", "m", "a", "m", " ", "kh", "m", "y", "n", "y">>>>],
      [province |-> <<"y", "z", "d">>,
       keywords |-> <<<<"y", "z", "d">>>>],
      [province |-> <<"s", "m", "n", "a", "n">>,
       keywords |-> <<<<"s", "m", "n", "a", "n">>>>],
      [province |-> <<"a", "r", "d", "b", "y", "l">>,
       keywords |-> <<<<"a", "r", "d", "b", "y", "l">>, <<"m", "H", "q", "q", " ", "a", "r", "d", "b", "y", "l", "y">>>>],
      [province |-> <<"z", "n", "j", "a", "n">>,
       keywords |-> <<<<"z", "n", "j", "a", "n">>>>],
      [province |-> <<"k", "r", "d", "s", "t", "a", "n">>,
       keywords |-> <<<<"k", "r", "d", "s", "t", "a", "n">>, <<"s", "n", "n", "d", "j">>>>],
      [province |-> <<"A", "dh", "r", "b", "a", "y", "j", "a", "n", " ", "gh", "r", "b", "y">>,
       keywords |-> <<<<"a", "r", "v", "m", "y", "h">>, <<"a", "r", "m", "y", "h">>>>],
      [province |-> <<"l", "r", "s", "t", "a", "n">>,
       keywords |-> <<<<"l", "r", "s", "t", "a", "n">>, <<"kh", "r", "m", " ", "A", "b", "a", "d">>>>],
      [province |-> <<"a", "y", "l", "a", "m">>,
       keywords |-> <<<<"a", "y", "l", "a", "m">>>>],
      [province |-> <<"b", "v", "sh", "h", "r">>,
       keywords |-> <<<<"b", "v", "sh", "h", "r">>, <<"kh", "l", "y", "j", " ", "f", "a", "r", "s">>>>],
      [province |-> <<"h", "r", "m", "z", "g", "a", "n">>,
       keywords |-> <<<<"h", "r", "m", "z", "g", "a", "n">>, <<"b", "n", "d", "r", "E", "b", "a", "s">>>>],
      [province |-> <<"s", "y", "s", "t", "a", "n", " ", "v", " ", "b", "l", "v", "ch", "s", "t", "a", "n">>,
       keywords |-> <<<<"s", "y", "s", "t", "a", "n">>, <<"b", "l", "v", "ch", "s", "t", "a", "n">>, <<"z", "a", "h", "d", "a", "n">>>>],
      [province |-> <<"kh", "r", "a", "s", "a", "n", " ", "sh", "m", "a", "l", "y">>,
       keywords |-> <<<<"b", "j", "n", "v", "r", "d">>>>],
      [province |-> <<"kh", "r", "a", "s", "a", "n", " ", "j", "n", "v", "b", "y">>,
       keywords |-> <<<<"b", "y", "r", "j", "n", "d">>>>],
      [province |-> <<"a", "l", "b", "r", "z">>,
       keywords |-> <<<<"a", "l", "b", "r", "z">>, <<"k", "r", "j">>>>],
      [province |-> <<"q", "m">>,
       keywords |-> <<<<"q", "m">>>>],
      [province |-> <<"ch", "h", "a", "r", "m", "H", "a", "l", " ", "v", " ", "b", "kh", "t", "y", "a", "r", "y">>,
       keywords |-> <<<<"sh", "h", "r", "k", "r", "d">>>>],
      [province |-> <<"k", "h", "g", "y", "l", "v", "y", "h", " ", "v", " ", "b", "v", "y", "r", "a", "H", "m", "d">>,
       keywords |-> <<<<"y", "a", "s", "v", "j">>>>],
      [province |-> <<"g", "l", "s", "t", "a", "n">>,
       keywords |-> <<<<"g", "l", "s", "t", "a", "n">>, <<"g", "r", "g", "a", "n">>>>]>>

main_provinces ==
    <<<<"t", "h", "r", "a", "n">>,
      <<"a", "S", "f", "h", "a", "n">>,
      <<"f", "a", "r", "s">>,
      <<"kh", "v", "z", "s", "t", "a", "n">>,
      <<"kh", "r", "a", "s", "a", "n", " ", "r", "D", "v", "y">>,
      <<"A", "dh", "r", "b", "a", "y", "j", "a", "n", " ", "sh", "r", "q", "y">>,
      <<"m", "a", "z", "n", "d", "r", "a", "n">>,
      <<"k", "r", "m", "a", "n">>,
      <<"g", "y", "l", "a", "n">>>>

Unknown == <<"n", "a", "m", "sh", "kh", "S">>

Other == <<"s", "a", "y", "r">>

\* every label extract_province can return, in sort order
ProvinceLabels ==
    <<<<"A", "dh", "r", "b", "a", "y", "j", "a", "n", " ", "sh", "r", "q", "y">>,
      <<"A", "dh", "r", "b", "a", "y", "j", "a", "n", " ", "gh", "r", "b", "y">>,
      <<"a", "r", "d", "b", "y", "l">>,
      <<"a", "S", "f", "h", "a", "n">>,
      <<"a", "l", "b", "r", "z">>,
      <<"a", "h", "v", "a", "z">>,
      <<"a", "y", "l", "a", "m">>,
      <<"b", "v", "sh", "h", "r">>,
      <<"t", "b", "r", "y", "z">>,
      <<"t", "h", "r", "a", "n">>,
      <<"kh", "r", "a", "s", "a", "n", " ", "j", "n", "v", "b", "y">>,
      <<"kh", "r", "a", "s", "a", "n", " ", "r", "D", "v", "y">>,
      <<"kh", "r", "a", "s", "a", "n", " ", "sh", "m", "a", "l", "y">>,
      <<"kh", "v", "z", "s", "t", "a", "n">>,
      <<"z", "n", "j", "a", "n">>,
      <<"s", "a", "y", "r">>,
      <<"s", "m", "n", "a", "n">>,
      <<"s", "y", "s", "t", "a", "n", " ", "v", " ", "b", "l", "v", "ch", "s", "t", "a", "n">>,
      <<"sh", "y", "r", "a", "z">>,
      <<"f", "a", "r", "s">>,
      <<"q", "z", "v", "y", "n">>,
      <<"q", "m">>,
      <<"l", "r", "s", "t", "a", "n">>,
      <<"m", "a", "z", "n", "d", "r", "a", "n">>,
      <<"m", "sh", "h", "d">>,
      <<"n", "a", "m", "sh", "kh", "S">>,
      <<"h", "r", "m", "z", "g", "a", "n">>,
      <<"h", "m", "d", "a", "n">>,
      <<"ch", "h", "a", "r", "m", "H", "a", "l", " ", "v", " ", "b", "kh", "t", "y", "a", "r", "y">>,
      <<"k", "r", "d", "s", "t", "a", "n">>,
      <<"k", "r", "m", "a", "n">>,
      <<"k", "r", "m", "a", "n", "sh", "a", "h">>,
      <<"k", "h", "g", "y", "l", "v", "y", "h", " ", "v", " ", "b", "v", "y", "r", "a", "H", "m", "d">>,
      <<"g", "l", "s", "t", "a", "n">>,
      <<"g", "y", "l", "a", "n">>,
      <<"y", "z", "d">>>>

\* the university names of the model, in sort order
Universities ==
    <<<<"d", "a", "n", "sh", "g", "a", "h", " ", "t", "h", "r", "a", "n">>,
      <<"d", "a", "n", "sh", "g", "a", "h", " ", "r", "a", "z", "y", " ", "k", "r", "m", "a", "n", "sh", "a", "h">>,
      <<"p", "zh", "v", "h", "sh", "g", "a", "h", " ", "m", "v", "a", "d">>>>

\* keyword in name
Contains(name, keyword) ==
    \E i \in 0..(Len(name) - Len(keyword)) :
        SubSeq(name, i + 1, i + Len(keyword)) = keyword

\* str.strip()
RECURSIVE Strip(_)
Strip(name) ==
    IF name = <<>> THEN name
    ELSE IF Head(name) = " " THEN Strip(Tail(name))
    ELSE IF name[Len(name)] = " " THEN Strip(SubSeq(name, 1, Len(name) - 1))
    ELSE name

\* lines 146-148: the inner loop, whether some keyword of the list occurs
\* in the name
RECURSIVE AnyKeywordIn(_, _)
AnyKeywordIn(name, keywords) ==
    IF keywords = <<>> THEN FALSE
    ELSE IF Contains(name, Head(keywords)) THEN TRUE
    ELSE AnyKeywordIn(name, Tail(keywords))

\* lines 145-148: the outer loop over the table in declaration order; the
\* province of the first entry with a keyword in the name, <<>> when the
\* loop ends without returning
RECURSIVE ScanProvinces(_, _)
ScanProvinces(name, table) ==
    IF table = <<>> THEN <<>>
    ELSE IF AnyKeywordIn(name, Head(table).keywords) THEN Head(table).province
    ELSE ScanProvinces(name, Tail(table))

\* lines 153-155: the loop over main_provinces
RECURSIVE ScanMain(_, _)
ScanMain(name, names) ==
    IF names = <<>> THEN <<>>
    ELSE IF Contains(name, Head(names)) THEN Head(names)
    ELSE ScanMain(name, Tail(names))

\* the sequence q in reverse order
Reverse(q) == [i \in 1..Len(q) |-> q[Len(q) + 1 - i]]

\* extract_province scanning the table from its last entry
extract_province_LastMatch(university_name) ==
    IF university_name = NoUniversity THEN Unknown
    ELSE LET name == Strip(university_name)
             found == ScanProvinces(name, Reverse(provinces))
             main == ScanMain(name, main_provinces)
         IN  IF found # <<>> THEN found
             ELSE IF main # <<>> THEN main
             ELSE Other

\* extract_province without its final return statement
extract_province_NoDefault(university_name) ==
    IF university_name = NoUniversity THEN Unknown
    ELSE LET name == Strip(university_name)
             found == ScanProvinces(name, provinces)
             main == ScanMain(name, main_provinces)
         IN  IF found # <<>> THEN found
             ELSE IF main # <<>> THEN main
             ELSE <<>>

extract_province(university_name) ==
    IF university_name = NoUniversity THEN Unknown
    ELSE LET name == Strip(university_name)
             found == ScanProvinces(name, provinces)
             main == ScanMain(name, main_provinces)
         IN  IF found # <<>> THEN found
             ELSE IF main # <<>> THEN main
             ELSE Other

\* one call of extract_province(university_name)
CallExtractProvince ==
    /\ script = "extract_province" /\ pc = "call"
    /\ province' = extract_province(university_cell)
    /\ pc' = "done"
    /\ UNCHANGED <<tvars, script, exc, gini, university_cell, nvars, mvars, inputs,
                   s1vars, s2vars, s3vars, a2vars>>

(***************************************************************************)
(* season_3.py: the universities summary                                   *)
(***************************************************************************)
\* GroupBy.count() of a name column: the non-null entries
CountSubjects(rows) == Len(SelectSeq(rows, LAMBDA r : r.subject # NoSubject))

\* GroupBy.nunique() of the subject column
NUniqueSubjects(rows) ==
    Cardinality({rows[i].subject : i \in 1..Len(rows)} \ {NoSubject})

\* lines 183-189: uni_contracts
UniContracts(contracts) ==
    LET keys == GroupKeys(contracts, "university", Universities)
    IN  [i \in 1..Len(keys) |->
            LET g == GroupRows(contracts, "university", keys[i])
            IN  [university |-> keys[i],
                 contract |-> pd_sum(Column(g, "contract")),
                 n_contracts |-> CountSubjects(g)]]

\* lines 192-197: uni_payments
UniPayments(payments) ==
    LET keys == GroupKeys(payments, "university", Universities)
    IN  [i \in 1..Len(keys) |->
            LET g == GroupRows(payments, "university", keys[i])
            IN  [university |-> keys[i],
                 payment |-> pd_sum(Column(g, "payment")),
                 n_payments |-> CountSubjects(g)]]

\* Series.fillna(0)
fillna0(x) == IF IsNaN(x) THEN Num(0) ELSE x

\* lines 183-210: uni_summary, the left merge keeps the rows of uni_contracts
S3_UniSummary ==
    /\ script = "season_3" /\ pc = "uni_summary"
    /\ LET uc == UniContracts(df_contracts)
           up == UniPayments(df_payments)
           Paid(u) == SelectSeq(up, LAMBDA r : r.university = u)
       IN  uni_summary' =
             [i \in 1..Len(uc) |->
                [university |-> uc[i].university,
                 contract |-> uc[i].contract,
                 n_contracts |-> uc[i].n_contracts,
                 payment |-> fillna0(IF Paid(uc[i].university) = <<>> THEN NaN
                                     ELSE Paid(uc[i].university)[1].payment),
                 n_payments |-> IF Paid(uc[i].university) = <<>> THEN 0
                                ELSE Paid(uc[i].university)[1].n_payments,
                 mean_contract |-> FDiv(uc[i].contract, Num(uc[i].n_contracts)),
                 n_subjects |-> NUniqueSubjects(
                                  GroupRows(df_contracts, "university", uc[i].university))]]
    /\ pc' = "provinces"
    /\ UNCHANGED <<script, exc, gini, fvars, inputs, s1vars, s2vars, a2vars, contract_amounts,
                   cumulative_percent, threshold_80, num_unis_80,
                   province_contracts, province_payments>>

\* extract_province applied to every university cell of the model
ProvinceOf ==
    [u \in Range(Universities) \cup {NoUniversity} |-> extract_province(u)]

\* df[column 'province'] = df['university'].apply(extract_province)
WithProvince(rows) ==
    [i \in 1..Len(rows) |->
        [f \in DOMAIN rows[i] \cup {"province"} |->
            IF f = "province" THEN ProvinceOf[rows[i].university]
            ELSE rows[i][f]]]

\* lines 213-215: the province column of uni_summary, df_contracts, df_payments
S3_Provinces ==
    /\ script = "season_3" /\ pc = "provinces"
    /\ uni_summary' = WithProvince(uni_summary)
    /\ df_contracts' = WithProvince(df_contracts)
    /\ df_payments' = WithProvince(df_payments)
    /\ pc' = "chart_3_2"
    /\ UNCHANGED <<script, exc, gini, fvars, values, s1vars, s2vars, a2vars, contract_amounts,
                   cumulative_percent, threshold_80, num_unis_80,
                   province_contracts, province_payments>>

\* insert row r into the rows s ascending by contract, after equal amounts
RECURSIVE InsertByContract(_, _)
InsertByContract(r, s) ==
    IF s = <<>> THEN <<r>>
    ELSE IF FLt(r.contract, Head(s).contract) THEN <<r>> \o s
    ELSE <<Head(s)>> \o InsertByContract(r, Tail(s))

\* DataFrame.sort_values('contract'): ascending, the rows keep their labels
RECURSIVE sort_values_contract(_)
sort_values_contract(s) ==
    IF s = <<>> THEN <<>>
    ELSE InsertByContract(s[Len(s)], sort_values_contract(SubSeq(s, 1, Len(s) - 1)))

\* line 295: uni_summary[contract > 0].sort_values('contract'); label is the
\* row's index label, its 0-based position in uni_summary
ContractAmounts(summary) ==
    LET labelled == [i \in 1..Len(summary) |->
                        [label |-> i - 1,
                         university |-> summary[i].university,
                         contract |-> summary[i].contract]]
    IN  sort_values_contract(SelectSeq(labelled, LAMBDA r : FGt(r.contract, Num(0))))

\* line 330: the index LABEL of the last entry that is at most 80, else 0
Threshold80(amounts, cp) ==
    LET hits == {i \in 1..Len(cp) : FLe(cp[i], Num(80))}
    IN  IF hits = {} THEN 0
        ELSE amounts[CHOOSE i \in hits : \A j \in hits : j <= i].label

\* lines 295-337: the cumulative curve of chart 3-2 and its 80% guide lines;
\* contract_amounts.iloc[threshold_80] is positional and raises past the end
S3_Chart_3_2 ==
    /\ script = "season_3" /\ pc = "chart_3_2"
    /\ contract_amounts' = ContractAmounts(uni_summary)
    /\ cumulative_percent' = CumulativePercent(Column(contract_amounts', "contract"))
    /\ threshold_80' = Threshold80(contract_amounts', cumulative_percent')
    /\ IF threshold_80' > 0
       THEN IF threshold_80' < Len(contract_amounts')
            THEN /\ num_unis_80' = threshold_80' + 1
                 /\ pc' = "chart_3_10"
                 /\ exc' = exc
            ELSE /\ num_unis_80' = num_unis_80
                 /\ pc' = "raised"
                 /\ exc' = "IndexError"
       ELSE /\ num_unis_80' = num_unis_80
            /\ pc' = "chart_3_10"
            /\ exc' = exc
    /\ UNCHANGED <<script, gini, fvars, inputs, s1vars, s2vars, a2vars, uni_summary,
                   province_contracts, province_payments>>

\* df.groupby('province')[col].sum() / 1000
ProvinceSums(rows, col) ==
    LET keys == GroupKeys(rows, "province", ProvinceLabels)
    IN  [i \in 1..Len(keys) |->
            [key |-> keys[i],
             val |-> FDiv(pd_sum(Column(GroupRows(rows, "province", keys[i]), col)),
                          Num(1000))]]

\* lines 719-720: province_contracts and province_payments
S3_Chart_3_10 ==
    /\ script = "season_3" /\ pc = "chart_3_10"
    /\ province_contracts' = ProvinceSums(df_contracts, "contract")
    /\ province_payments' = ProvinceSums(df_payments, "payment")
    /\ pc' = "done"
    /\ UNCHANGED <<script, exc, gini, fvars, inputs, s1vars, s2vars, a2vars, uni_summary,
                   contract_amounts, cumulative_percent, threshold_80,
                   num_unis_80>>

(***************************************************************************)
(* season_2.py: the subjects summary                                       *)
(***************************************************************************)
\* the executive departments of the subjects
Departments == <<"D1">>

\* GroupBy.count() of the university column: the non-null entries
CountUniversities(rows) ==
    Len(SelectSeq(rows, LAMBDA r : r.university # NoUniversity))

\* GroupBy.nunique() of the university column
NUniqueUniversities(rows) ==
    Cardinality({rows[i].university : i \in 1..Len(rows)} \ {NoUniversity})

\* lines 84-91: one row per subject of the contracts table
S2_SubjectsSummary ==
    /\ script = "season_2" /\ pc = "subjects_summary"
    /\ LET keys == GroupKeys(df_contracts, "subject", Subjects)
       IN  subjects_summary' =
             [i \in 1..Len(keys) |->
                LET g == GroupRows(df_contracts, "subject", keys[i])
                IN  [subject |-> keys[i],
                     credit |-> pd_first(Column(g, "credit")),
                     department |-> g[1].department,
                     contract |-> pd_sum(Column(g, "contract")),
                     n_contracts |-> CountUniversities(g)]]
    /\ pc' = "merge_payments"
    /\ UNCHANGED <<script, exc, gini, fvars, inputs, s1vars, s3vars, a2vars,
                   total_credit, total_contract, total_payment, dept_summary,
                   heights, bottoms>>

\* the payments table taken row by row, without the grouping by subject
PaymentsSummary_Ungrouped(payments) ==
    [i \in 1..Len(payments) |->
        [subject |-> payments[i].subject, payment |-> payments[i].payment]]

\* lines 94-97: payments_summary
PaymentsSummary(payments) ==
    LET keys == GroupKeys(payments, "subject", Subjects)
    IN  [i \in 1..Len(keys) |->
            [subject |-> keys[i],
             payment |-> pd_sum(Column(GroupRows(payments, "subject", keys[i]),
                                       "payment"))]]

\* record r with the field f set to v
WithField(r, f, v) ==
    [x \in DOMAIN r \cup {f} |-> IF x = f THEN v ELSE r[x]]

\* DataFrame.merge(right, on=subject column, how='left') bringing the column
\* f of right: every left row once per right row of the same key, in order,
\* or once with a null f when right has no row of that key
RECURSIVE merge_left(_, _, _)
merge_left(left, right, f) ==
    IF left = <<>> THEN <<>>
    ELSE LET l == Head(left)
             matches == SelectSeq(right, LAMBDA r : r.subject = l.subject)
             rows == IF matches = <<>> THEN <<WithField(l, f, NaN)>>
                     ELSE [j \in 1..Len(matches) |-> WithField(l, f, matches[j][f])]
         IN  rows \o merge_left(Tail(left), right, f)

\* lines 100-101: the left merge of payments_summary, then fillna(0)
S2_MergePayments ==
    /\ script = "season_2" /\ pc = "merge_payments"
    /\ LET merged == merge_left(subjects_summary, PaymentsSummary(df_payments),
                                "payment")
       IN  subjects_summary' =
             [i \in 1..Len(merged) |->
                WithField(merged[i], "payment", fillna0(merged[i].payment))]
    /\ pc' = "ratios"
    /\ UNCHANGED <<script, exc, gini, fvars, inputs, s1vars, s3vars, a2vars,
                   total_credit, total_contract, total_payment, dept_summary,
                   heights, bottoms>>

\* (a / b) * 100
Percent(a, b) == FMul(FDiv(a, b), Num(100))

\* np.where(contract > 0, (payment / contract) * 100, 0)
PaymentFromContract(payment, contract) ==
    IF FGt(contract, Num(0)) THEN Percent(payment, contract) ELSE Num(0)

\* lines 104-110: the three percentage columns
S2_Ratios ==
    /\ script = "season_2" /\ pc = "ratios"
    /\ subjects_summary' =
         [i \in 1..Len(subjects_summary) |->
            LET r == subjects_summary[i]
            IN  WithField(
                  WithField(
                    WithField(r, "contract_pct", Percent(r.contract, r.credit)),
                    "payment_pct", Percent(r.payment, r.credit)),
                  "payment_from_contract_pct",
                  PaymentFromContract(r.payment, r.contract))]
    /\ pc' = "uni_count"
    /\ UNCHANGED <<script, exc, gini, fvars, inputs, s1vars, s3vars, a2vars,
                   total_credit, total_contract, total_payment, dept_summary,
                   heights, bottoms>>

\* lines 113-114: uni_count, the distinct universities of every subject
UniCount(contracts) ==
    LET keys == GroupKeys(contracts, "subject", Subjects)
    IN  [i \in 1..Len(keys) |->
            [subject |-> keys[i],
             n_universities |->
                NUniqueUniversities(GroupRows(contracts, "subject", keys[i]))]]

\* lines 113-115: the left merge of uni_count
S2_UniCount ==
    /\ script = "season_2" /\ pc = "uni_count"
    /\ subjects_summary' =
         merge_left(subjects_summary, UniCount(df_contracts), "n_universities")
    /\ pc' = "chart_2_5"
    /\ UNCHANGED <<script, exc, gini, fvars, inputs, s1vars, s3vars, a2vars,
                   total_credit, total_contract, total_payment, dept_summary,
                   heights, bottoms>>

\* lines 367-373: the values of the five bars: the three stages and the two
\* decreases between them
WaterfallValues(credit, contract, payment) ==
    <<credit, FNeg(FSub(credit, contract)), contract,
      FNeg(FSub(contract, payment)), payment>>

\* lines 376-381: positions, the running sums of the values
WaterfallPositions(v) ==
    LET p1 == Num(0)
        p2 == FAdd(p1, v[1])
        p3 == FAdd(p2, v[2])
        p4 == FAdd(p3, v[3])
        p5 == FAdd(p4, v[4])
    IN  <<p1, p2, p3, p4, p5>>

\* abs(h)
FAbs(x) == IF FLt(x, Num(0)) THEN FNeg(x) ELSE x

\* lines 354-395: the totals of the waterfall chart, in billions, and the
\* bars drawn from them: heights [abs(h) for h in heights] on bottoms
S2_WaterfallTotals ==
    /\ script = "season_2" /\ pc = "chart_2_5"
    /\ total_credit' = FDiv(pd_sum(Column(subjects_summary, "credit")), Num(1000))
    /\ total_contract' = FDiv(pd_sum(Column(subjects_summary, "contract")), Num(1000))
    /\ total_payment' = FDiv(pd_sum(Column(subjects_summary, "payment")), Num(1000))
    /\ LET v == WaterfallValues(total_credit', total_contract', total_payment')
           positions == WaterfallPositions(v)
       IN  /\ heights' = [i \in 1..5 |-> FAbs(v[i])]
           /\ bottoms' = <<Num(0), positions[1], positions[2], positions[3],
                           positions[4]>>
    /\ pc' = "dept_summary"
    /\ UNCHANGED <<script, exc, gini, fvars, inputs, s1vars, s3vars, a2vars,
                   subjects_summary, dept_summary>>

\* lines 566-583: the summary by executive department and its percentages
S2_DeptSummary ==
    /\ script = "season_2" /\ pc = "dept_summary"
    /\ LET keys == GroupKeys(subjects_summary, "department", Departments)
       IN  dept_summary' =
             [i \in 1..Len(keys) |->
                LET g == GroupRows(subjects_summary, "department", keys[i])
                    credit == pd_sum(Column(g, "credit"))
                    contract == pd_sum(Column(g, "contract"))
                    payment == pd_sum(Column(g, "payment"))
                IN  [department |-> keys[i],
                     credit |-> credit,
                     contract |-> contract,
                     payment |-> payment,
                     n_subjects |-> Len(g),
                     contract_pct |-> Percent(contract, credit),
                     payment_pct |-> Percent(payment, credit),
                     payment_from_contract_pct |->
                        PaymentFromContract(payment, contract)]]
    /\ pc' = "done"
    /\ UNCHANGED <<script, exc, gini, fvars, inputs, s1vars, s3vars, a2vars,
                   subjects_summary, total_credit, total_contract, total_payment,
                   heights, bottoms>>

(***************************************************************************)
(* archive/season_2.py: the Pareto curve of chart 2-8                      *)
(***************************************************************************)
\* insert row r into the rows s descending by credit_1404, after equal ones
RECURSIVE InsertByCreditDesc(_, _)
InsertByCreditDesc(r, s) ==
    IF s = <<>> THEN <<r>>
    ELSE IF FGt(r.credit_1404, Head(s).credit_1404) THEN <<r>> \o s
    ELSE <<Head(s)>> \o InsertByCreditDesc(r, Tail(s))

\* df.sort_values('credit_1404', ascending=False)
RECURSIVE sort_values_credit_desc(_)
sort_values_credit_desc(s) ==
    IF s = <<>> THEN <<>>
    ELSE InsertByCreditDesc(s[Len(s)],
                            sort_values_credit_desc(SubSeq(s, 1, Len(s) - 1)))

\* lines 592-593: sorted_entities and cumulative_pct
A2_Chart_2_8 ==
    /\ script = "archive_season_2" /\ pc = "chart_2_8"
    /\ sorted_entities' = sort_values_credit_desc(df)
    /\ cumulative_pct' = CumulativePercent(Column(sorted_entities', "credit_1404"))
    /\ pc' = "done"
    /\ UNCHANGED <<script, exc, gini, fvars, inputs, s1vars, s2vars, s3vars, df,
                   sheet, totals, growth_rates>>

(***************************************************************************)
(* archive/season_2.py: the credit columns read by load_and_process_data   *)
(* and the growth rates of charts 2-1 and 2-2                              *)
(***************************************************************************)
\* lines 118-120: credit_cols
credit_cols ==
    {"credit_1398", "credit_1399", "credit_1400", "credit_1401", "credit_1402",
     "credit_1404"}

\* line 124: pd.to_numeric(..., errors='coerce').fillna(0) of one cell; a
\* blank or non-numeric cell is NaN
to_numeric_fillna(cell) == IF IsNaN(cell) THEN Num(0) ELSE cell

\* lines 111-127: df_clean, the credit columns made numeric and credit_1403
\* set to 0 in every row
A2_LoadCredits ==
    /\ script = "archive_trend" /\ pc = "load"
    /\ df_columns' = sheet_columns \cup {"credit_1403"}
    /\ df' = [i \in 1..Len(sheet) |->
                [c \in df_columns' |->
                    IF c = "credit_1403" THEN Num(0)
                    ELSE IF c \in credit_cols THEN to_numeric_fillna(sheet[i][c])
                    ELSE sheet[i][c]]]
    /\ pc' = "chart_2_1"
    /\ UNCHANGED <<script, exc, gini, evars, nvars, tvars, file_state,
                   sheet_columns, fault_at, data_source, log, inputs, s1vars,
                   s2vars, s3vars, sorted_entities, cumulative_pct, sheet,
                   totals, growth_rates>>

\* lines 194, 284: years
years == <<"1398", "1399", "1400", "1401", "1402", "1403", "1404">>

\* lines 197-203, 287-293: the total of each year in billions, 0 for a year
\* whose column the table does not have
YearlyTotals(d, columns) ==
    [k \in 1..Len(years) |->
        LET col == "credit_" \o years[k]
        IN  IF col \in columns THEN FDiv(pd_sum(Column(d, col)), Num(1000))
            ELSE Num(0)]

\* the loop of lines 207-212 without its test of totals[i-1]
RECURSIVE GrowthLoop_Unguarded(_, _, _)
GrowthLoop_Unguarded(t, i, rates) ==
    IF i > Len(t) THEN rates
    ELSE GrowthLoop_Unguarded(t, i + 1,
            Append(rates, FMul(FDiv(FSub(t[i], t[i - 1]), t[i - 1]), Num(100))))

\* lines 207-212, 298-303: for i in range(1, len(totals)), with i counted
\* from 1 here
RECURSIVE GrowthLoop(_, _, _)
GrowthLoop(t, i, rates) ==
    IF i > Len(t) THEN rates
    ELSE GrowthLoop(t, i + 1,
            Append(rates,
                   IF FGt(t[i - 1], Num(0))
                   THEN FMul(FDiv(FSub(t[i], t[i - 1]), t[i - 1]), Num(100))
                   ELSE Num(0)))

\* lines 206-212, 297-303: growth_rates = [0] and the loop
GrowthRates(t) == GrowthLoop(t, 2, <<Num(0)>>)

\* lines 193-212: chart_2_1_area_trend
A2_Chart_2_1 ==
    /\ script = "archive_trend" /\ pc = "chart_2_1"
    /\ totals' = YearlyTotals(df, df_columns)
    /\ growth_rates' = GrowthRates(totals')
    /\ pc' = "chart_2_2"
    /\ UNCHANGED <<script, exc, gini, fvars, inputs, s1vars, s2vars, s3vars, df,
                   sorted_entities, cumulative_pct, sheet>>

\* lines 284-303: chart_2_2_combo_annual computes both lists again
A2_Chart_2_2 ==
    /\ script = "archive_trend" /\ pc = "chart_2_2"
    /\ totals' = YearlyTotals(df, df_columns)
    /\ growth_rates' = GrowthRates(totals')
    /\ pc' = "done"
    /\ UNCHANGED <<script, exc, gini, fvars, inputs, s1vars, s2vars, s3vars, df,
                   sorted_entities, cumulative_pct, sheet>>

(***************************************************************************)
(* format_number_with_separator and convert_to_persian_number.  A string   *)
(* is the sequence of its characters; "p0" .. "p9", "p," and "p%" stand    *)
(* for the Persian digits, the Persian comma and the Persian percent sign. *)
(***************************************************************************)
\* a Python scalar is its type and, for a number, its value
PyNone == [type |-> "NoneType", val |-> NaN]

PyInt(k) == [type |-> "int", val |-> Num(k)]

PyNaN == [type |-> "float", val |-> NaN]

english_digits == <<"0", "1", "2", "3", "4", "5", "6", "7", "8", "9", ".", ",", "%">>

persian_digits ==
    <<"p0", "p1", "p2", "p3", "p4", "p5", "p6", "p7", "p8", "p9", ".", "p,", "p%">>

\* str.translate(translation_table) on one character
Translate(ch) ==
    IF \E i \in 1..Len(english_digits) : english_digits[i] = ch
    THEN persian_digits[CHOOSE i \in 1..Len(english_digits) : english_digits[i] = ch]
    ELSE ch

convert_to_persian_number(str) == [i \in 1..Len(str) |-> Translate(str[i])]

\* the decimal digits of the natural number k
RECURSIVE DecimalDigits(_)
DecimalDigits(k) ==
    IF k < 10 THEN <<english_digits[k + 1]>>
    ELSE Append(DecimalDigits(k \div 10), english_digits[(k % 10) + 1])

\* the ',' option of the format specification: groups of three digits
RECURSIVE GroupThousands(_)
GroupThousands(d) ==
    IF Len(d) <= 3 THEN d
    ELSE GroupThousands(SubSeq(d, 1, Len(d) - 3)) \o <<",">>
            \o SubSeq(d, Len(d) - 2, Len(d))

\* f'{x:,.0f}' for x a natural number or the float nan
FormatSpec(x) ==
    IF IsNaN(x.val) THEN <<"n", "a", "n">>
    ELSE GroupThousands(DecimalDigits(x.val[1]))

\* pd.isna on a scalar
pd_isna(x) == x.type = "NoneType" \/ IsNaN(x.val)

\* the files whose definition starts with the pd.isna test
Guarded == {"season_1.py", "season_2.py", "season_3.py"}

Variants == Guarded \cup {"test.py", "archive/season_1_claudeR1.py"}

format_number_with_separator(file, x, persian) ==
    IF file \in Guarded /\ pd_isna(x)
    THEN IF persian THEN convert_to_persian_number(<<"0">>) ELSE <<"0">>
    ELSE LET f == IF x.type \in {"int", "float"} THEN FormatSpec(x)
                  ELSE <<"N", "o", "n", "e">>         \* str(None)
         IN  IF persian THEN convert_to_persian_number(f) ELSE f

\* one call of format_number_with_separator(number, use_persian)
CallFormatNumber ==
    /\ script = "format_number_with_separator" /\ pc = "call"
    /\ formatted' = format_number_with_separator(variant, number, use_persian)
    /\ pc' = "done"
    /\ UNCHANGED <<tvars, script, exc, gini, evars, variant, number, use_persian, mvars,
                   inputs, s1vars, s2vars, s3vars, a2vars>>

(***************************************************************************)
(* archive/season_2.py: main(), load_and_process_data and the columns the  *)
(* chart functions read                                                    *)
(***************************************************************************)
CreditColumns ==
    {"credit_1398", "credit_1399", "credit_1400", "credit_1401", "credit_1402",
     "credit_1404"}

\* the columns of column_mapping the chart functions read
ExpectedColumns == {"entity_name", "executive_org"} \cup CreditColumns

\* the columns of create_sample_data the chart functions read
SampleColumns == ExpectedColumns \cup {"credit_1403"}

\* the columns chart 2-i reads without testing that they exist
ChartNeeds ==
    <<{}, {}, {},
      {"executive_org", "credit_1404"},
      {"executive_org"} \cup CreditColumns,
      {"executive_org", "credit_1404"},
      {"credit_1404", "entity_name"},
      {"credit_1404"},
      {}, {},
      {"credit_1402", "credit_1404"},
      {"executive_org", "credit_1404"},
      {"credit_1404"}>>

\* the positions of main() with the calls of charts 2-1 and 2-2 exchanged
ChartPc_Exchanged ==
    <<"chart_2_2", "chart_2_1", "chart_2_3", "chart_2_4", "chart_2_5",
      "chart_2_6", "chart_2_7", "chart_2_8", "chart_2_9", "chart_2_10",
      "chart_2_11", "chart_2_12", "chart_2_13">>

ChartPc ==
    <<"chart_2_1", "chart_2_2", "chart_2_3", "chart_2_4", "chart_2_5",
      "chart_2_6", "chart_2_7", "chart_2_8", "chart_2_9", "chart_2_10",
      "chart_2_11", "chart_2_12", "chart_2_13">>

\* line 681: os.makedirs('fig/s2', exist_ok=True)
A2_Makedirs ==
    /\ script = "archive_main" /\ pc = "makedirs"
    /\ log' = Append(log, "makedirs")
    /\ pc' = "load"
    /\ UNCHANGED <<tvars, script, exc, gini, evars, nvars, file_state, sheet_columns,
                   fault_at, df_columns, data_source, inputs, s1vars, s2vars,
                   s3vars, a2vars>>

\* lines 85-152: load_and_process_data.  Only the columns the sheet has are
\* renamed and converted, credit_1403 is added; a missing file or any other
\* exception of the try block returns create_sample_data()
A2_Load ==
    /\ script = "archive_main" /\ pc = "load"
    /\ IF file_state = "ok"
       THEN /\ df_columns' = sheet_columns \cup {"credit_1403"}
            /\ data_source' = "excel"
            /\ log' = log \o <<"data_loaded", "processing_completed">>
       ELSE /\ df_columns' = SampleColumns
            /\ data_source' = "sample"
            /\ log' = log \o <<IF file_state = "missing" THEN "error_not_found"
                                ELSE "error_loading",
                                "sample_data_created">>
    /\ pc' = ChartPc[1]
    /\ UNCHANGED <<tvars, script, exc, gini, evars, nvars, file_state, sheet_columns,
                   fault_at, inputs, s1vars, s2vars, s3vars, a2vars>>

\* the chart functions in their order, each exception dropped where it is
\* raised and the next chart function called
A2_GenerateChart_GoesOn ==
    /\ script = "archive_main"
    /\ \E i \in 1..Len(ChartPc) :
        /\ pc = ChartPc[i]
        /\ df_columns' = IF i = 5 /\ ChartNeeds[i] \subseteq df_columns
                         THEN df_columns \cup {"total_credits"}
                         ELSE df_columns
        /\ log' = IF ChartNeeds[i] \subseteq df_columns /\ fault_at # i
                  THEN Append(log, ChartPc[i])
                  ELSE log
        /\ pc' = IF i < Len(ChartPc) THEN ChartPc[i + 1] ELSE "banner"
    /\ UNCHANGED <<tvars, script, exc, gini, evars, nvars, file_state, sheet_columns,
                   fault_at, data_source, inputs, s1vars, s2vars, s3vars, a2vars>>

\* lines 687-702: the chart functions in their order; chart 2-5 adds the
\* column total_credits to df before it draws (line 478); charts 2-6 to 2-13
\* are drawn by create_remaining_charts.  A column that is read but absent
\* raises KeyError, which leaves the try block
A2_GenerateChart ==
    /\ script = "archive_main"
    /\ \E i \in 1..Len(ChartPc) :
        /\ pc = ChartPc[i]
        /\ IF ~(ChartNeeds[i] \subseteq df_columns)
           THEN /\ exc' = "KeyError"
                /\ pc' = "except"
                /\ UNCHANGED <<df_columns, log>>
           ELSE /\ df_columns' = IF i = 5 THEN df_columns \cup {"total_credits"}
                                 ELSE df_columns
                /\ IF fault_at = i
                   THEN /\ exc' = "Exception"
                        /\ pc' = "except"
                        /\ UNCHANGED log
                   ELSE /\ exc' = exc
                        /\ log' = Append(log, ChartPc[i])
                        /\ pc' = IF i < Len(ChartPc) THEN ChartPc[i + 1]
                                 ELSE "banner"
    /\ UNCHANGED <<tvars, script, gini, evars, nvars, file_state, sheet_columns,
                   fault_at, data_source, inputs, s1vars, s2vars, s3vars, a2vars>>

\* lines 704-710: the success banner and the list of the 13 files
A2_Banner ==
    /\ script = "archive_main" /\ pc = "banner"
    /\ log' = Append(log, "success_banner")
    /\ pc' = "done"
    /\ UNCHANGED <<tvars, script, exc, gini, evars, nvars, file_state, sheet_columns,
                   fault_at, df_columns, data_source, inputs, s1vars, s2vars,
                   s3vars, a2vars>>

\* lines 712-715: except Exception prints the error; main() returns
A2_Except ==
    /\ script = "archive_main" /\ pc = "except"
    /\ log' = Append(log, "error_generating")
    /\ exc' = "none"
    /\ pc' = "done"
    /\ UNCHANGED <<tvars, script, gini, evars, nvars, file_state, sheet_columns,
                   fault_at, df_columns, data_source, inputs, s1vars, s2vars,
                   s3vars, a2vars>>

(***************************************************************************)
(* season_3.py: format_text_multiline.  A text is the sequence of its      *)
(* characters, "\n" is the line feed.                                      *)
(***************************************************************************)
NoText == <<"NaN">>         \* a null cell passed as text

\* str.split(): the maximal runs of characters other than the blank
RECURSIVE SplitFrom(_, _)
SplitFrom(str, word) ==
    IF str = <<>> THEN (IF word = <<>> THEN <<>> ELSE <<word>>)
    ELSE IF Head(str) = " "
    THEN (IF word = <<>> THEN <<>> ELSE <<word>>) \o SplitFrom(Tail(str), <<>>)
    ELSE SplitFrom(Tail(str), Append(word, Head(str)))

Split(str) == SplitFrom(str, <<>>)

\* sep.join(parts)
RECURSIVE Join(_, _)
Join(parts, sep) ==
    IF parts = <<>> THEN <<>>
    ELSE IF Len(parts) = 1 THEN parts[1]
    ELSE parts[1] \o <<sep>> \o Join(Tail(parts), sep)

\* lines 61-72: the loop over the words; the lines and the current line
\* when the loop ends or breaks
RECURSIVE WrapWords(_, _, _, _, _, _)
WrapWords(words, lines, current_line, current_length, max_chars, maxl) ==
    IF words = <<>> THEN [lines |-> lines, current_line |-> current_line]
    ELSE LET word == Head(words)
         IN  IF current_length + Len(word) + Len(current_line) <= max_chars
             THEN WrapWords(Tail(words), lines, Append(current_line, word),
                            current_length + Len(word), max_chars, maxl)
             ELSE LET flushed == IF current_line # <<>>
                                 THEN Append(lines, Join(current_line, " "))
                                 ELSE lines
                  IN  IF current_line # <<>> /\ Len(flushed) >= maxl
                      THEN [lines |-> flushed, current_line |-> current_line]
                      ELSE WrapWords(Tail(words), flushed, <<word>>, Len(word),
                                     max_chars, maxl)

\* sum(len(line.split()) for line in lines)
RECURSIVE WordsIn(_)
WordsIn(lines) ==
    IF lines = <<>> THEN 0 ELSE Len(Split(Head(lines))) + WordsIn(Tail(lines))

\* s[:k] for k >= 0
Prefix(str, k) == SubSeq(str, 1, IF k < Len(str) THEN k ELSE Len(str))

format_text_multiline(txt, max_chars, maxl) ==
    IF txt = <<>> \/ txt = NoText THEN <<>>
    ELSE LET words == Split(Strip(txt))
             loop == WrapWords(words, <<>>, <<>>, 0, max_chars, maxl)
             lines == IF loop.current_line # <<>> /\ Len(loop.lines) < maxl
                      THEN Append(loop.lines, Join(loop.current_line, " "))
                      ELSE loop.lines
             cut == IF Len(words) > WordsIn(lines) /\ lines # <<>>
                    THEN [lines EXCEPT ![Len(lines)] =
                            Prefix(@, max_chars - 3) \o <<".", ".", ".">>]
                    ELSE lines
         IN  Join(cut, "\n")

\* one call of format_text_multiline(text, max_chars_per_line, max_lines)
CallFormatText ==
    /\ script = "format_text_multiline" /\ pc = "call"
    /\ multiline' = format_text_multiline(text, max_chars_per_line, max_lines)
    /\ pc' = "done"
    /\ UNCHANGED <<script, exc, gini, evars, nvars, mvars, text,
                   max_chars_per_line, max_lines, inputs, s1vars, s2vars,
                   s3vars, a2vars>>

(***************************************************************************)
(* Inputs                                                                  *)
(***************************************************************************)
\* the amounts calculate_gini is called with
AmountSet == {0, 10, 20, 30, 40, 100}

SeqsUpTo(S, n) == UNION {[1..k -> S] : k \in 0..n}

\* the tables with at least one row
TablesUpTo(S, n) == SeqsUpTo(S, n) \ {<<>>}

GiniInputs == SeqsUpTo({Num(a) : a \in AmountSet}, MaxN)

(***************************************************************************)
(* The runs                                                                *)
(***************************************************************************)
\* season_1 reads the subject and its credit of every contracts row
CreditSet == {100, 300, 400}

ContractRows1 ==
    [subject : Range(Subjects) \cup {NoSubject},
     university : {Universities[1]},
     credit : {Num(c) : c \in CreditSet},
     contract : {Num(300)}]

\* season_3 reads the university and the contract amount of every row
ContractRows3 ==
    [subject : {Subjects[1]},
     university : {Universities[1], Universities[2], NoUniversity},
     credit : {Num(1000)},
     contract : {Num(0), Num(100), Num(300)}]

\* season_2 reads the subject, its credit and the contract amount
ContractRows2 ==
    [subject : {Subjects[1], Subjects[2], NoSubject},
     department : {Departments[1]},
     university : {Universities[1]},
     credit : {Num(0), Num(1000)},
     contract : {Num(0), Num(300)}]

PaymentRows2 ==
    [subject : {Subjects[1], NoSubject},
     university : {Universities[1]},
     payment : {Num(150)}]

\* archive/season_2 reads credit_1404 of every row of Research-Credibility.xlsx
CreditRowsA ==
    [entity_name : {Subjects[1]},
     credit_1404 : {Num(0), Num(100), Num(300), Num(400)}]

PaymentRows3 ==
    [subject : {Subjects[1]},
     university : {Universities[1]},
     payment : {Num(50)}]

\* words the university names of the calls of extract_province are made of
NameWords ==
    <<<<" ">>,
      <<"d", "a", "n", "sh", "g", "a", "h">>,
      <<"t", "h", "r", "a", "n">>,
      <<"sh", "y", "r", "a", "z">>,
      <<"k", "r", "m", "a", "n">>,
      <<"sh", "a", "h">>,
      <<"r", "a", "z", "y">>,
      <<"f", "a", "r", "s">>,
      <<"kh", "l", "y", "j">>,
      <<"m", "v", "a", "d">>>>

\* the names made of at most n words, written one after the other
RECURSIVE Names(_)
Names(n) ==
    IF n = 0 THEN {<<>>}
    ELSE Names(n - 1) \cup
            {x \o NameWords[i] : x \in Names(n - 1), i \in 1..Len(NameWords)}

\* the arguments format_number_with_separator is called with
NumberInputs ==
    {PyNone, PyNaN} \cup {PyInt(k) : k \in {0, 7, 999, 1000, 1234567}}

\* the expected columns a sheet may lack
DroppableColumns == {"entity_name", "executive_org", "credit_1398", "credit_1404"}

\* the texts format_text_multiline is called with: letters and blanks
TextInputs == SeqsUpTo({"a", " "}, MaxTextLen) \cup {NoText}

NothingComputed ==
    /\ province = <<>>
    /\ multiline = <<>>
    /\ formatted = <<>>
    /\ df_columns = {}
    /\ data_source = "none"
    /\ log = <<>>
    /\ gini = NaN
    /\ exc = "none"
    /\ total_credits = NaN
    /\ credits_per_subject = <<>>
    /\ credits_sorted = <<>>
    /\ cumulative_percentage = <<>>
    /\ index_20 = 0
    /\ credit_at_20 = NaN
    /\ index_80 = 0
    /\ subject_at_80 = NaN
    /\ top_20_pct = NaN
    /\ uni_summary = <<>>
    /\ contract_amounts = <<>>
    /\ cumulative_percent = <<>>
    /\ threshold_80 = 0
    /\ num_unis_80 = 0
    /\ province_contracts = <<>>
    /\ province_payments = <<>>
    /\ subjects_summary = <<>>
    /\ total_credit = NaN
    /\ total_contract = NaN
    /\ total_payment = NaN
    /\ dept_summary = <<>>
    /\ heights = <<>>
    /\ bottoms = <<>>
    /\ sorted_entities = <<>>
    /\ cumulative_pct = <<>>
    /\ totals = <<>>
    /\ growth_rates = <<>>

InitGini ==
    /\ script = "gini"
    /\ pc = "call"
    /\ values \in GiniInputs
    /\ df_contracts = <<>>
    /\ df_payments = <<>>
    /\ df = <<>>
    /\ sheet = <<>>
    /\ NothingComputed

InitSeason1 ==
    /\ script = "season_1"
    /\ pc = "load"
    /\ values = <<>>
    /\ \/ /\ file_state = "ok"
          /\ df_contracts \in TablesUpTo(ContractRows1, MaxRows1)
       \/ /\ file_state = "unreadable"
          /\ df_contracts = <<>>
    /\ df_payments = <<>>
    /\ df = <<>>
    /\ sheet = <<>>
    /\ NothingComputed

InitSeason3 ==
    /\ script = "season_3"
    /\ pc = "uni_summary"
    /\ values = <<>>
    /\ df_contracts \in TablesUpTo(ContractRows3, MaxRows3)
    /\ df_payments \in SeqsUpTo(PaymentRows3, MaxPayments3)
    /\ df = <<>>
    /\ sheet = <<>>
    /\ NothingComputed

InitSeason2 ==
    /\ script = "season_2"
    /\ pc = "subjects_summary"
    /\ values = <<>>
    /\ df_contracts \in TablesUpTo(ContractRows2, MaxRows2)
    /\ df_payments \in SeqsUpTo(PaymentRows2, MaxPayments2)
    /\ df = <<>>
    /\ sheet = <<>>
    /\ NothingComputed

InitArchive2 ==
    /\ script = "archive_season_2"
    /\ pc = "chart_2_8"
    /\ values = <<>>
    /\ df_contracts = <<>>
    /\ df_payments = <<>>
    /\ df \in SeqsUpTo(CreditRowsA, MaxRowsA)
    /\ sheet = <<>>
    /\ NothingComputed

\* extract_province is called with a null cell or with a name
InitExtractProvince ==
    /\ script = "extract_province"
    /\ pc = "call"
    /\ university_cell \in Names(MaxWords) \cup {NoUniversity}
    /\ values = <<>>
    /\ df_contracts = <<>>
    /\ df_payments = <<>>
    /\ df = <<>>
    /\ sheet = <<>>
    /\ NothingComputed

\* format_number_with_separator of one file is called
InitFormatNumber ==
    /\ script = "format_number_with_separator"
    /\ pc = "call"
    /\ variant \in Variants
    /\ number \in NumberInputs
    /\ use_persian \in BOOLEAN
    /\ values = <<>>
    /\ df_contracts = <<>>
    /\ df_payments = <<>>
    /\ df = <<>>
    /\ sheet = <<>>
    /\ NothingComputed

\* main() of archive/season_2.py starts
InitArchiveMain ==
    /\ script = "archive_main"
    /\ pc = "makedirs"
    /\ file_state \in {"ok", "missing", "unreadable"}
    /\ sheet_columns \in {ExpectedColumns \ m : m \in SUBSET DroppableColumns}
    /\ fault_at \in 0..Len(ChartPc)
    /\ values = <<>>
    /\ df_contracts = <<>>
    /\ df_payments = <<>>
    /\ df = <<>>
    /\ sheet = <<>>
    /\ NothingComputed

\* the cells a row of the sheet may hold in each credit column; NaN is a
\* blank cell
SheetCells ==
    [credit_1398 |-> {Num(0), Num(100)}, credit_1399 |-> {Num(100), Num(300)},
     credit_1400 |-> {NaN, Num(100)}, credit_1401 |-> {Num(100)},
     credit_1402 |-> {Num(0), Num(200)}, credit_1404 |-> {Num(100)}]

SheetRows(columns) == {r \in [columns -> {NaN, Num(0), Num(100), Num(200), Num(300)}] :
                          \A c \in columns : r[c] \in SheetCells[c]}

\* charts 2-1 and 2-2 of archive/season_2.py on a sheet that has the credit
\* columns, or all of them but one
InitArchiveTrend ==
    /\ script = "archive_trend"
    /\ pc = "load"
    /\ file_state = "ok"
    /\ sheet_columns \in {credit_cols, credit_cols \ {"credit_1400"}}
    /\ fault_at = 0
    /\ sheet \in SeqsUpTo(SheetRows(sheet_columns), MaxRowsT)
    /\ values = <<>>
    /\ df_contracts = <<>>
    /\ df_payments = <<>>
    /\ df = <<>>
    /\ NothingComputed

\* format_text_multiline is called
InitFormatText ==
    /\ script = "format_text_multiline"
    /\ pc = "call"
    /\ text \in TextInputs
    /\ max_chars_per_line \in 4..MaxChars
    /\ max_lines \in 1..MaxLines
    /\ values = <<>>
    /\ df_contracts = <<>>
    /\ df_payments = <<>>
    /\ df = <<>>
    /\ sheet = <<>>
    /\ NothingComputed

NoTextCall == text = <<>> /\ max_chars_per_line = 20 /\ max_lines = 2

NoExtractCall == university_cell = <<>>

NoFormatCall == variant = "none" /\ number = PyNone /\ use_persian = TRUE

NoMainRun == sheet_columns = {} /\ fault_at = 0

\* the reading of the input file is not part of the run
NoFile == file_state = "none"

NoCall == NoExtractCall /\ NoFormatCall /\ NoTextCall

Init ==
    \/ /\ InitGini \/ InitSeason2 \/ InitSeason3 \/ InitArchive2
       /\ NoCall /\ NoMainRun /\ NoFile
    \/ InitSeason1 /\ NoCall /\ NoMainRun
    \/ InitExtractProvince /\ NoFormatCall /\ NoTextCall /\ NoMainRun /\ NoFile
    \/ InitFormatNumber /\ NoExtractCall /\ NoTextCall /\ NoMainRun /\ NoFile
    \/ InitFormatText /\ NoExtractCall /\ NoFormatCall /\ NoMainRun /\ NoFile
    \/ InitArchiveMain /\ NoCall
    \/ InitArchiveTrend /\ NoCall

\* one call of calculate_gini(values)
CallGini ==
    /\ script = "gini" /\ pc = "call"
    /\ LET r == calculate_gini(values)
       IN  /\ gini' = r.val
           /\ exc' = r.exc
           /\ pc' = IF r.exc = "none" THEN "done" ELSE "raised"
    /\ UNCHANGED <<script, fvars, inputs, s1vars, s2vars, s3vars, a2vars>>

Next ==
    \/ CallGini
    \/ A2_LoadCredits
    \/ A2_Chart_2_1
    \/ A2_Chart_2_2
    \/ S1_Load
    \/ S1_Totals
    \/ S1_CreditsPerSubject
    \/ S1_Curve
    \/ S1_Index20
    \/ S1_Index80
    \/ S1_KeyStats
    \/ S3_UniSummary
    \/ S3_Provinces
    \/ S3_Chart_3_2
    \/ S3_Chart_3_10
    \/ S2_SubjectsSummary
    \/ S2_MergePayments
    \/ S2_Ratios
    \/ S2_UniCount
    \/ S2_WaterfallTotals
    \/ S2_DeptSummary
    \/ CallExtractProvince
    \/ CallFormatNumber
    \/ CallFormatText
    \/ A2_Makedirs
    \/ A2_Load
    \/ A2_GenerateChart
    \/ A2_Banner
    \/ A2_Except
    \/ A2_Chart_2_8

Spec == Init /\ [][Next]_vars

(***************************************************************************)
(* Properties of calculate_gini                                            *)
(***************************************************************************)
GiniReturned == script = "gini" /\ pc = "done"

PositiveSum(vs) == FGt(np_sum(vs), Num(0))

\* the reference formula G = (2 * SUM(i * x_i)) / (n * SUM(x_i)) - (n + 1) / n,
\* x_i the i-th smallest amount
GiniReference(vs) ==
    LET x == np_sort(vs)
        n == Len(vs)
    IN  FSub(FDiv(FMul(Num(2), np_sum([i \in 1..n |-> FMul(Num(i), x[i])])),
                  FMul(Num(n), np_sum(x))),
             Norm(n + 1, n))

AllIdentical(vs) == \A i, j \in 1..Len(vs) : vs[i] = vs[j]

OneHoldsAll(vs) ==
    \E i \in 1..Len(vs) :
        /\ FGt(vs[i], Num(0))
        /\ \A j \in 1..Len(vs) : j # i => vs[j] = Num(0)

\* C1: for every non-empty sequence of non-negative amounts with positive
\* sum, calculate_gini returns the value of the reference formula with
\* ascending rank weights; [10,20,30,40] yields the reference value 1/4.
C1_GiniMatchesReference ==
    (GiniReturned /\ PositiveSum(values)) =>
        /\ gini = GiniReference(values)
        /\ (values = <<Num(10), Num(20), Num(30), Num(40)>> => gini = Norm(1, 4))

\* C2: for every sequence of n >= 1 non-negative amounts with positive sum
\* the Gini coefficient returned lies in the closed interval [0, 1].
C2_GiniInUnitInterval ==
    (GiniReturned /\ PositiveSum(values)) =>
        (FLe(Num(0), gini) /\ FLe(gini, Num(1)))

\* C3: when one entity holds the whole amount and the other n - 1 hold zero,
\* calculate_gini returns (n - 1) / n; [100,0,0,0,0] gives 0.8.
C3_GiniOneHoldsAll ==
    (GiniReturned /\ OneHoldsAll(values)) =>
        /\ gini = Norm(Len(values) - 1, Len(values))
        /\ (values = <<Num(100), Num(0), Num(0), Num(0), Num(0)>> => gini = Norm(4, 5))

\* C4: calculate_gini returns 0 whenever every amount of the input is
\* identical, the single-entity case n = 1 included, and raises nothing
\* in the n = 1 case.
C4_GiniIdenticalIsZero ==
    (script = "gini" /\ pc # "call" /\ Len(values) >= 1 /\ AllIdentical(values)) =>
        (exc = "none" /\ gini = Num(0))

(***************************************************************************)
(* Properties of the concentration curves                                  *)
(***************************************************************************)
\* the curve of season_1 chart 1-3 has been computed
S1CurveComputed ==
    script = "season_1" /\ pc \in {"index_20", "index_80", "key_stats", "done", "raised"}

\* the curve of season_3 chart 3-2 has been computed
S3CurveComputed ==
    /\ script = "season_3"
    /\ pc \in {"chart_3_10", "done"} \/ (pc = "raised" /\ exc = "IndexError")

\* the curve of archive/season_2 chart 2-8 has been computed
A2CurveComputed == script = "archive_season_2" /\ pc = "done"

NonDecreasingTo100(cp) ==
    /\ \A i \in 1..(Len(cp) - 1) : FLe(cp[i], cp[i + 1])
    /\ cp[Len(cp)] = Num(100)

\* C5: for every non-empty set of non-negative amounts with positive total,
\* the cumulative percentage of the curve is non-decreasing from each rank
\* to the next and equals 100 at the last rank (season_1 chart 1-3,
\* season_3 chart 3-2, archive season_2 chart 2-8).
C5_CumulativeNonDecreasingTo100 ==
    /\ (S1CurveComputed /\ PositiveSum(credits_sorted)) =>
            /\ Len(cumulative_percentage) = Len(credits_sorted)
            /\ NonDecreasingTo100(cumulative_percentage)
    /\ (S3CurveComputed /\ PositiveSum(Column(contract_amounts, "contract"))) =>
            /\ Len(cumulative_percent) = Len(contract_amounts)
            /\ NonDecreasingTo100(cumulative_percent)
    /\ (A2CurveComputed /\ PositiveSum(Column(df, "credit_1404"))) =>
            /\ Len(cumulative_pct) = Len(df)
            /\ NonDecreasingTo100(cumulative_pct)

\* a curve of three entities, the last of them with amount zero
C5_Witness ==
    /\ A2CurveComputed
    /\ Len(cumulative_pct) = 3
    /\ FLt(cumulative_pct[1], Num(100))
    /\ cumulative_pct[2] = Num(100)
    /\ cumulative_pct[3] = Num(100)

Descending(amounts) ==
    \A i \in 1..(Len(amounts) - 1) : FLe(amounts[i + 1], amounts[i])

\* C6: every concentration curve the scripts compute is accumulated over
\* the amounts sorted in descending order: rank 1 is the largest entity.
C6_CurvesDescending ==
    /\ S1CurveComputed => Descending(credits_sorted)
    /\ S3CurveComputed => Descending(Column(contract_amounts, "contract"))
    /\ A2CurveComputed => Descending(Column(sorted_entities, "credit_1404"))

\* the 0-based rank of the first entry of the curve that reaches 80
SmallestRankReaching80(cp) ==
    LET hits == {i \in 1..Len(cp) : FLe(Num(80), cp[i])}
    IN  (CHOOSE i \in hits : \A j \in hits : i <= j) - 1

\* C7: the 80% threshold lookup returns the smallest rank whose cumulative
\* percentage reaches the threshold; among ranks of equal cumulative
\* percentage the lowest index is chosen.
C7_ThresholdSmallestRank ==
    /\ (script = "season_1" /\ pc \in {"key_stats", "done"}) =>
            index_80 = SmallestRankReaching80(cumulative_percentage)
    /\ (S3CurveComputed /\ contract_amounts # <<>>) =>
            threshold_80 = SmallestRankReaching80(cumulative_percent)

HasNaN(cp) == \E i \in 1..Len(cp) : IsNaN(cp[i])

\* C8: when the total of the amounts is zero, or no entity remains after
\* filtering, the concentration computation neither divides by zero nor
\* fails on the empty curve (it reports "no data" instead).
C8_ZeroTotalIsNoData ==
    /\ (S1CurveComputed /\ credits_sorted = <<>>) => exc = "none"
    /\ (S3CurveComputed /\ contract_amounts = <<>>) => exc = "none"
    /\ (A2CurveComputed /\ ~PositiveSum(Column(df, "credit_1404"))) =>
            ~HasNaN(cumulative_pct)

(***************************************************************************)
(* Properties of the grouping                                              *)
(***************************************************************************)
S2Grouped ==
    script = "season_2" /\ pc # "subjects_summary"

S2Merged ==
    script = "season_2"
        /\ pc \in {"ratios", "uni_count", "chart_2_5", "dept_summary", "done"}

S3Grouped ==
    script = "season_3" /\ pc # "uni_summary"

S3ProvincesGrouped ==
    script = "season_3" /\ pc = "done"

\* C9: for every non-empty contracts table, in each grouping the scripts
\* perform (by subject in season_2, by university and by province in
\* season_3) the grouped contract amounts sum to the sum of the
\* contract-amount column over all input rows.
C9_GroupingConservesContracts ==
    /\ (S2Grouped /\ df_contracts # <<>>) =>
            pd_sum(Column(subjects_summary, "contract"))
                = pd_sum(Column(df_contracts, "contract"))
    /\ (S3Grouped /\ df_contracts # <<>>) =>
            pd_sum(Column(uni_summary, "contract"))
                = pd_sum(Column(df_contracts, "contract"))
    /\ (S3ProvincesGrouped /\ df_contracts # <<>>) =>
            FMul(pd_sum(Column(province_contracts, "val")), Num(1000))
                = pd_sum(Column(df_contracts, "contract"))

\* C10: after the payments are merged into the per-entity summary (per
\* subject in season_2, per university in season_3) the total payment
\* carried by the summary equals the sum of all rows of the payments table,
\* whatever keys occur in the payments table.
C10_MergeConservesPayments ==
    /\ S2Merged =>
            pd_sum(Column(subjects_summary, "payment"))
                = pd_sum(Column(df_payments, "payment"))
    /\ (script = "season_2" /\ pc = "done") =>
            FMul(total_payment, Num(1000)) = pd_sum(Column(df_payments, "payment"))
    /\ S3Grouped =>
            pd_sum(Column(uni_summary, "payment"))
                = pd_sum(Column(df_payments, "payment"))

(***************************************************************************)
(* Properties of the subjects summary of season_2.py                       *)
(***************************************************************************)
\* the distinct subject names of a table (an empty cell is not a name)
DistinctSubjects(rows) ==
    {rows[i].subject : i \in 1..Len(rows)} \ {NoSubject}

\* C11: from the grouping on, through the payment merge and the
\* university-count merge, the subjects summary holds exactly one row per
\* distinct subject name of the contracts table.
C11_OneRowPerSubject ==
    S2Grouped =>
        /\ Len(subjects_summary) = Cardinality(DistinctSubjects(df_contracts))
        /\ DistinctSubjects(subjects_summary) = DistinctSubjects(df_contracts)

\* both merges are done, two subjects are summarised and one of them has two
\* rows in the payments table
C11_Witness ==
    /\ script = "season_2" /\ pc \in {"chart_2_5", "dept_summary", "done"}
    /\ Len(subjects_summary) = 2
    /\ Len(df_payments) = 2
    /\ df_payments[1].subject = df_payments[2].subject
    /\ df_payments[1].subject \in DistinctSubjects(df_contracts)

S2RatiosComputed ==
    script = "season_2" /\ pc \in {"uni_count", "chart_2_5", "dept_summary", "done"}

S2DeptComputed ==
    script = "season_2" /\ pc = "done"

\* what a ratio reported as "undefined" may be: a value that is neither 0
\* nor NaN nor an infinity
DefinedSentinel(x) ==
    ~IsNaN(x) /\ IsFinite(x) /\ x # Num(0)

\* C12: in the subjects summary, a subject whose credit is zero has its
\* contract/credit ratio reported as a defined sentinel (not 0, not NaN,
\* not infinity) when its contract amount is nonzero, and likewise its
\* payment/credit ratio when its payment is nonzero.
C12_ZeroCreditRatioIsSentinel ==
    S2RatiosComputed =>
        \A i \in 1..Len(subjects_summary) :
            LET r == subjects_summary[i]
            IN  r.credit = Num(0) =>
                    /\ r.contract # Num(0) => DefinedSentinel(r.contract_pct)
                    /\ r.payment # Num(0) => DefinedSentinel(r.payment_pct)

\* C13: a row (of the subjects summary or of the department summary) whose
\* contract amount is zero while its credit is positive does not report 0
\* as payment-from-contract ratio, its contract/credit percentage is 0 and,
\* when nothing was paid, its payment/credit percentage is 0.
ZeroContractRow(r) ==
    (r.contract = Num(0) /\ FGt(r.credit, Num(0))) =>
        /\ r.payment_from_contract_pct # Num(0)
        /\ r.contract_pct = Num(0)
        /\ r.payment = Num(0) => r.payment_pct = Num(0)

C13_ZeroContractPaymentRatioIsSentinel ==
    /\ S2RatiosComputed =>
            \A i \in 1..Len(subjects_summary) : ZeroContractRow(subjects_summary[i])
    /\ S2DeptComputed =>
            \A i \in 1..Len(dept_summary) : ZeroContractRow(dept_summary[i])

\* C14: in the subjects summary, a subject whose contract amount and credit
\* are both zero has its contract/credit and payment-from-contract ratios
\* equal to 0 and, when nothing was paid, its payment/credit ratio too.
C14_ZeroContractZeroCreditRatiosAreZero ==
    S2RatiosComputed =>
        \A i \in 1..Len(subjects_summary) :
            LET r == subjects_summary[i]
            IN  (r.contract = Num(0) /\ r.credit = Num(0)) =>
                    /\ r.contract_pct = Num(0)
                    /\ r.payment_from_contract_pct = Num(0)
                    /\ r.payment = Num(0) => r.payment_pct = Num(0)

(***************************************************************************)
(* Properties of extract_province                                          *)
(***************************************************************************)
ExtractReturned ==
    script = "extract_province" /\ pc = "done"

\* the closed label set: the keys of the province table and the two sentinels
ClosedLabels ==
    {provinces[i].province : i \in 1..Len(provinces)} \cup {Unknown, Other}

\* the entries of the province table with a keyword occurring in the name
Hits(name) ==
    {i \in 1..Len(provinces) :
        \E k \in 1..Len(provinces[i].keywords) :
            Contains(name, provinces[i].keywords[k])}

\* the main province names occurring in the name
MainHits(name) ==
    {i \in 1..Len(main_provinces) : Contains(name, main_provinces[i])}

Least(S) == CHOOSE i \in S : \A j \in S : i <= j

C16_BlankIsUnknown ==
    (ExtractReturned
        /\ (university_cell = NoUniversity \/ Strip(university_cell) = <<>>))
      => province = Unknown

\* C17: for every non-null name extract_province returns the first entry of
\* the province table, in declaration order, one of whose keywords occurs in
\* the name; only when no entry matches, the first main province name
\* occurring in the name, or 'other'.
C17_FirstProvinceInTableOrder ==
    (ExtractReturned /\ university_cell # NoUniversity) =>
        LET hits == Hits(university_cell)
            main == MainHits(university_cell)
        IN  province = IF hits # {} THEN provinces[Least(hits)].province
                       ELSE IF main # {} THEN main_provinces[Least(main)]
                       ELSE Other

\* a name in which a keyword of a later entry of the table stands before a
\* keyword of an earlier entry was labelled with the earlier entry
C17_Witness ==
    /\ ExtractReturned
    /\ university_cell = NameWords[4] \o NameWords[1] \o NameWords[3]
    /\ Cardinality(Hits(university_cell)) >= 2
    /\ province = provinces[1].province

\* C18: every name containing the keyword of Kermanshah is labelled
\* Kermanshah, although the keyword of Kerman occurs inside it.
Kermanshah == <<"k", "r", "m", "a", "n", "sh", "a", "h">>

C18_KermanshahNotKerman ==
    (ExtractReturned /\ university_cell # NoUniversity
        /\ Contains(university_cell, Kermanshah))
      => province = Kermanshah

(***************************************************************************)
(* Properties of format_number_with_separator                              *)
(***************************************************************************)
FormatReturned ==
    script = "format_number_with_separator" /\ pc = "done"

\* C19: in every file that defines it, format_number_with_separator called
\* with None or NaN returns, without raising, the zero representation: the
\* Persian digit zero with use_persian, '0' without.
C19_FormatNullIsZero ==
    (FormatReturned /\ pd_isna(number)) =>
        /\ exc = "none"
        /\ formatted = IF use_persian THEN <<"p0">> ELSE <<"0">>

(***************************************************************************)
(* Properties of main() of archive/season_2.py                             *)
(***************************************************************************)
MainReturned ==
    script = "archive_main" /\ pc = "done"

\* the numbers of the charts the run has generated
ChartsGenerated ==
    {i \in 1..Len(ChartPc) : \E j \in 1..Len(log) : log[j] = ChartPc[i]}

\* the sheet was read but lacks an expected column
ColumnMissing ==
    file_state = "ok" /\ sheet_columns # ExpectedColumns

\* C20: a run of main() whose sheet lacks an expected column (and in which
\* no drawing fails for another reason) continues until every chart of
\* the script, 2-1 to 2-13, is generated.
C20_MissingColumnRunContinues ==
    (MainReturned /\ ColumnMissing /\ fault_at = 0) =>
        ChartsGenerated = 1..Len(ChartPc)

(***************************************************************************)
(* Properties of the runs on an unreadable input file                      *)
(***************************************************************************)
\* the run has ended
RunEnded ==
    \/ script = "archive_main" /\ pc = "done"
    \/ script = "season_1" /\ pc \in {"done", "raised", "aborted"}

\* C21: a run whose input spreadsheet is present but unreadable is aborted:
\* it ends without having generated or computed anything for a chart and
\* it has not gone on with substitute data.
C21_UnreadableFileAborts ==
    (RunEnded /\ file_state = "unreadable") =>
        /\ ChartsGenerated = {}
        /\ data_source # "sample"
        /\ script = "season_1" => (pc = "aborted" /\ total_credits = NaN)

(***************************************************************************)
(* Properties of the control flow of main() of archive/season_2.py         *)
(***************************************************************************)
\* the charts whose function raises in this run: a column it reads is not
\* in the loaded table, or its drawing fails
RaisingCharts ==
    {i \in 1..Len(ChartNeeds) :
        fault_at = i \/ ~(ChartNeeds[i] \subseteq df_columns)}

InLog(e) == \E j \in 1..Len(log) : log[j] = e

\* C22: in main() the success banner (with the list of the 13 files) is
\* printed only in runs where every chart function returned; when a chart
\* function raises, exactly the charts before it are generated, the error
\* message is printed last, no banner is printed and main() returns
\* normally.
C22_BannerOnlyAfterAllCharts ==
    /\ (script = "archive_main" /\ InLog("success_banner")) =>
            /\ ChartsGenerated = 1..Len(ChartNeeds)
            /\ ~InLog("error_generating")
    /\ (MainReturned /\ RaisingCharts # {}) =>
            /\ ChartsGenerated = 1..(Least(RaisingCharts) - 1)
            /\ log[Len(log)] = "error_generating"
            /\ ~InLog("success_banner")
            /\ exc = "none"
    /\ (MainReturned /\ RaisingCharts = {}) => InLog("success_banner")

\* the drawing of chart 2-7 failed: six charts, the error message, no banner
C22_Witness ==
    /\ MainReturned
    /\ fault_at = 7
    /\ ChartsGenerated = 1..6
    /\ InLog("error_generating")

(***************************************************************************)
(* Frame properties                                                        *)
(***************************************************************************)
\* C23: a step in which chart_2_5_stacked_area(df) returns leaves df with
\* the columns it had before the call, and the province tagging step of
\* season_3 leaves the loaded contracts and payments tables as they were.
C23_FunctionsLeaveTablesUnchanged ==
    [][/\ (script = "archive_main" /\ pc = "chart_2_5" /\ pc' = "chart_2_6")
            => df_columns' = df_columns
       /\ (script = "season_3" /\ pc = "provinces")
            => (df_contracts' = df_contracts /\ df_payments' = df_payments)]_vars

\* what the run prints or does when it loads the data
LoadEvents == {"data_loaded", "error_not_found", "error_loading"}

\* the figure number of an entry of the log, 0 for an entry that is no chart
FigureNumber(e) ==
    LET names == <<"chart_2_1", "chart_2_2", "chart_2_3", "chart_2_4",
                   "chart_2_5", "chart_2_6", "chart_2_7", "chart_2_8",
                   "chart_2_9", "chart_2_10", "chart_2_11", "chart_2_12",
                   "chart_2_13">>
    IN  IF \E i \in 1..Len(names) : names[i] = e
        THEN CHOOSE i \in 1..Len(names) : names[i] = e
        ELSE 0

\* the number of entries of the log that belong to the set S
Count(S) == Cardinality({j \in 1..Len(log) : log[j] \in S})

\* C24: in main() the output directory is created exactly once and the data
\* is loaded exactly once before any chart is generated, and the charts are
\* generated in strictly increasing figure number (so each at most once).
C24_SetupOnceChartsInOrder ==
    script = "archive_main" =>
        /\ Count({"makedirs"}) <= 1 /\ Count(LoadEvents) <= 1
        /\ \A j \in 1..Len(log) : FigureNumber(log[j]) > 0 =>
                /\ \E k \in 1..(j - 1) : log[k] = "makedirs"
                /\ \E k \in 1..(j - 1) : log[k] \in LoadEvents
        /\ \A j, k \in 1..Len(log) :
                (j < k /\ FigureNumber(log[j]) > 0 /\ FigureNumber(log[k]) > 0)
                    => FigureNumber(log[j]) < FigureNumber(log[k])
        /\ pc \notin {"makedirs", "load"} =>
                (Count({"makedirs"}) = 1 /\ Count(LoadEvents) = 1)

\* a run that generated all thirteen charts
C24_Witness ==
    /\ MainReturned
    /\ Cardinality({j \in 1..Len(log) : FigureNumber(log[j]) > 0}) = 13
    /\ log[1] = "makedirs"

(***************************************************************************)
(* Properties of format_text_multiline                                     *)
(***************************************************************************)
TextReturned ==
    script = "format_text_multiline" /\ pc = "done"

\* the lines of a returned text: its parts between the line feeds
RECURSIVE LinesFrom(_, _)
LinesFrom(str, line) ==
    IF str = <<>> THEN <<line>>
    ELSE IF Head(str) = "\n" THEN <<line>> \o LinesFrom(Tail(str), <<>>)
    ELSE LinesFrom(Tail(str), Append(line, Head(str)))

LinesOf(str) == IF str = <<>> THEN <<>> ELSE LinesFrom(str, <<>>)

\* the returned text does not hold all the words of the argument
WordsDropped ==
    text # NoText /\ WordsIn(LinesOf(multiline)) < Len(Split(text))

EndsWithDots(line) ==
    Len(line) >= 3 /\ SubSeq(line, Len(line) - 2, Len(line)) = <<".", ".", ".">>

\* C25: for max_chars_per_line >= 4 and max_lines >= 1 the text returned
\* by format_text_multiline has at most max_lines lines, each at most
\* max_chars_per_line characters long, and when words of the argument are
\* missing from it its last line ends with '...'.
C25_MultilineWithinLimits ==
    (TextReturned /\ max_chars_per_line >= 4 /\ max_lines >= 1) =>
        LET ls == LinesOf(multiline)
        IN  /\ Len(ls) <= max_lines
            /\ \A i \in 1..Len(ls) : Len(ls[i]) <= max_chars_per_line
            /\ WordsDropped => (ls # <<>> /\ EndsWithDots(ls[Len(ls)]))

(***************************************************************************)
(* Properties of the Pareto figures                                        *)
(***************************************************************************)
\* C26: when season_1 has run to its end, the top-20% share annotated on
\* the Pareto chart (credit_at_20) equals the top-20% share of the
\* statistics (top_20_pct).
C26_Top20SharesAgree ==
    (script = "season_1" /\ pc = "done") => credit_at_20 = top_20_pct

\* the universities of the curve whose cumulative share is at most 80%
AtMost80 ==
    {i \in 1..Len(cumulative_percent) : FLe(cumulative_percent[i], Num(80))}

\* C27: once chart 3-2 of season_3 has been computed, nothing was raised
\* and, when some university of the curve has a cumulative share of at
\* most 80%, num_unis_80 is the number of these universities and
\* contract_amounts.iloc[threshold_80] exists and is the last of them in the
\* order of the curve.
C27_NumUnis80CountsCurve ==
    (script = "season_3" /\ pc \in {"chart_3_10", "done", "raised"}) =>
        /\ exc = "none"
        /\ AtMost80 # {} =>
                /\ num_unis_80 = Cardinality(AtMost80)
                /\ threshold_80 < Len(contract_amounts)
                /\ contract_amounts[threshold_80 + 1]
                        = contract_amounts[Cardinality(AtMost80)]

(***************************************************************************)
(* Properties of the waterfall chart of season_2.py                        *)
(***************************************************************************)
S2WaterfallDrawn ==
    script = "season_2" /\ pc \in {"dept_summary", "done"}

\* the upper end of bar i
Top(i) == FAdd(bottoms[i], heights[i])

\* C28: in the waterfall chart, when total_credit >= total_contract >=
\* total_payment >= 0, the bars of the three stages start at 0 and have the
\* stage's total as height, each decrease bar spans from the total of the
\* stage after it up to the total of the stage before it, and no bar
\* extends above total_credit.
C28_WaterfallBars ==
    (S2WaterfallDrawn /\ FLe(Num(0), total_payment)
        /\ FLe(total_payment, total_contract) /\ FLe(total_contract, total_credit))
      =>
        /\ bottoms[1] = Num(0) /\ heights[1] = total_credit
        /\ bottoms[3] = Num(0) /\ heights[3] = total_contract
        /\ bottoms[5] = Num(0) /\ heights[5] = total_payment
        /\ bottoms[2] = total_contract /\ Top(2) = total_credit
        /\ bottoms[4] = total_payment /\ Top(4) = total_contract
        /\ \A i \in 1..5 : FLe(Top(i), total_credit)

(***************************************************************************)
(* Properties of the growth rates of charts 2-1 and 2-2                    *)
(***************************************************************************)
GrowthComputed ==
    script = "archive_trend" /\ pc \in {"chart_2_2", "done"}

\* (current - previous) / previous * 100
GrowthOf(current, previous) ==
    Norm((current[1] * previous[2] - previous[1] * current[2]) * previous[2] * 100,
         current[2] * previous[2] * previous[1])

S1TotalComputed ==
    script = "season_1" /\ pc \notin {"load", "totals", "aborted"}

\* the credit of subject k in the contracts table: that of its first row
\* with a credit
SubjectCredit(rows, k) ==
    LET at == {i \in 1..Len(rows) : rows[i].subject = k /\ ~IsNaN(rows[i].credit)}
    IN  IF at = {} THEN Num(0) ELSE rows[Least(at)].credit

\* the credits of the subjects of S, each taken once
RECURSIVE CreditOnce(_, _)
CreditOnce(rows, S) ==
    IF S = {} THEN Num(0)
    ELSE LET k == CHOOSE x \in S : TRUE
         IN  FAdd(SubjectCredit(rows, k), CreditOnce(rows, S \ {k}))

\* C30: the total mandatory credit counts the credit of each subject once,
\* however many contract rows the subject has: total_credits of season_1
\* is the sum of the subjects' credits, and so is the sum of the credit
\* column of the subjects summary of season_2, which equals what season_1
\* computes on the same contracts table and, in billions, total_credit of
\* the waterfall chart.
C30_CreditCountedOncePerSubject ==
    /\ S1TotalComputed =>
          total_credits = CreditOnce(df_contracts, DistinctSubjects(df_contracts))
    /\ S2Grouped =>
          /\ pd_sum(Column(subjects_summary, "credit"))
                = CreditOnce(df_contracts, DistinctSubjects(df_contracts))
          /\ pd_sum(Column(subjects_summary, "credit"))
                = pd_sum(CreditsPerSubjectRaw(df_contracts))
    /\ S2WaterfallDrawn =>
          total_credit = FDiv(pd_sum(CreditsPerSubjectRaw(df_contracts)), Num(1000))

\* season_2 has run on a table in which one subject has two contract rows,
\* each with a credit of 1000
C30_Witness ==
    /\ script = "season_2" /\ pc = "done"
    /\ Len(df_contracts) = 2
    /\ df_contracts[1].subject = df_contracts[2].subject
    /\ df_contracts[1].subject # NoSubject
    /\ df_contracts[1].credit = Num(1000) /\ df_contracts[2].credit = Num(1000)
    /\ total_credit = Num(1)

=============================================================================
